---- MODULE Spec2Model ----
(***************************************************************************)
(* RRR allocation and recommendation ledger of the NBTI promotion system.  *)
(*                                                                         *)
(* Scores are kept in hundredths (80.00 is 8000), so that round(x, 2) of   *)
(* the Python code is an integer rounding.  Dates are day numbers; NoDate  *)
(* stands for a NULL date column, 0 for a NULL integer column.             *)
(* sessions holds the database sessions in flight, each with the rows it   *)
(* has loaded; operations that run alone load and commit in one step and   *)
(* leave it empty.                                                         *)
(***************************************************************************)
EXTENDS Integers, Sequences, FiniteSets, TLC

VARIABLES users, vacancies, salary, recs, log, today, last, sessions

vars == <<users, vacancies, salary, recs, log, today, last, sessions>>

----------------------------------------------------------------------------
(* Bounds of the model *)

\* employees of the ledger specification
NumStaff == 2
\* employees of the allocation specification
MaxPool == 3
\* largest slot count a vacancy row is given
MaxSlots == 2
\* cap of failed_promotion_attempts
MaxFailed == 2
\* employees of the peer groups of the seniority specification
MaxPeers == 4

----------------------------------------------------------------------------
(* Values *)

NoDate == -1
NoRow == [none |-> TRUE]

\* datetime.max.date(), the sentinel of a missing date in the seniority key
MaxDate == 9999
\* 'ZZZZ', the sentinel of a missing file number; file numbers are encoded
\* by their place in the lexical order of strings
ZZZZ == 5

Cycles == {"2025"}
Statuses == {"Pending", "Approved", "Rejected"}

\* slot counts the vacancy endpoint stores: the request's integers, unchecked
SlotValues == -1 .. MaxSlots

----------------------------------------------------------------------------
(* Sequences *)

Range(s) == {s[i] : i \in DOMAIN s}

\* the list of the values of a sequence-valued function
List(f) == SubSeq(f, 1, Len(f))

Reverse(s) == List([i \in 1 .. Len(s) |-> s[Len(s) + 1 - i]])

\* the orders in which a query without ORDER BY can return the rows S
Perms(S) == {s \in [1 .. Cardinality(S) -> S] : Range(s) = S}

\* the rows S in the order ord of the table scan
Filter(ord, S) ==
    LET Member(x) == x \in S IN SelectSeq(ord, Member)

\* a[i:j] of a Python list
ClampIndex(i, n) ==
    IF i < 0 THEN (IF i + n < 0 THEN 0 ELSE i + n)
    ELSE IF i > n THEN n ELSE i

PySlice(s, i, j) ==
    LET lo == ClampIndex(i, Len(s))
        hi == ClampIndex(j, Len(s))
    IN IF lo >= hi THEN <<>> ELSE SubSeq(s, lo + 1, hi)

\* tuple comparison of Python, on tuples of integers of equal length
TupleLess(a, b) ==
    \E k \in DOMAIN a : a[k] < b[k] /\ \A m \in 1 .. k - 1 : a[m] = b[m]

\* The place list.sort gives to element i of keyed, a sequence of
\* <<key(item), item>>: after the elements of smaller key and after the
\* earlier elements of equal key (the sort is stable).
SortedPlace(keyed, i) ==
    1 + Cardinality({j \in DOMAIN keyed :
                        \/ TupleLess(keyed[j][1], keyed[i][1])
                        \/ keyed[j][1] = keyed[i][1] /\ j < i})

\* sorted(items, key=...)
Sorted(keyed) ==
    LET place == List([i \in DOMAIN keyed |-> SortedPlace(keyed, i)])
    IN List([p \in DOMAIN keyed |->
               keyed[CHOOSE i \in DOMAIN keyed : place[i] = p][2]])

\* sorted(items, key=..., reverse=True): the list is reversed, sorted and
\* reversed again, which keeps equal keys in their input order
SortedReverse(keyed) == Reverse(Sorted(Reverse(keyed)))

\* round(n / d, 0) of Python for n >= 0, d > 0: half to even
RoundDiv(n, d) ==
    LET q == n \div d
        r == n % d
    IN IF 2 * r < d THEN q
       ELSE IF 2 * r > d THEN q + 1
       ELSE IF q % 2 = 0 THEN q ELSE q + 1

----------------------------------------------------------------------------
(* Score Calculator *)

NoScore == -1

\* the sort key of User.calculate_seniority_score
SeniorityKey(u) ==
    << IF u.conraiss_step # 0 THEN -u.conraiss_step ELSE 0,
       IF u.confirmation_date # NoDate THEN u.confirmation_date ELSE MaxDate,
       IF u.date_of_birth # NoDate THEN u.date_of_birth ELSE MaxDate,
       IF u.file_no # 0 THEN u.file_no ELSE ZZZZ >>

\* list.index(x) + 1
IndexOf(s, x) == CHOOSE i \in DOMAIN s : s[i] = x /\ \A j \in 1 .. i - 1 : s[j] # x

\* a seniority score that divides by the number of peers instead of the
\* number of peers but one; the score of the most senior tells the two apart
SeniorityScoreOverN(uid, cands) ==
    IF cands = <<>> THEN 10000
    ELSE LET keyed == List([i \in DOMAIN cands |->
                          <<SeniorityKey(users[cands[i]]), cands[i]>>])
             total_candidates == Len(cands)
         IN IF uid \notin Range(cands) THEN 0
            ELSE IF total_candidates = 1 THEN 10000
            ELSE LET user_rank == SortedPlace(keyed, IndexOf(cands, uid))
                 IN RoundDiv(10000 * (total_candidates - user_rank), total_candidates)

\* User.calculate_seniority_score: uid among the peers cands (user ids in
\* the order they were retrieved).  sorted_candidates.index(self) + 1 is the
\* place the stable sort gives to the entry of uid.
calculate_seniority_score(uid, cands) ==
    IF cands = <<>> THEN 10000
    ELSE LET keyed == List([i \in DOMAIN cands |->
                          <<SeniorityKey(users[cands[i]]), cands[i]>>])
             total_candidates == Len(cands)
         IN IF uid \notin Range(cands) THEN 0
            ELSE IF total_candidates = 1 THEN 10000
            ELSE LET user_rank == SortedPlace(keyed, IndexOf(cands, uid))
                 IN RoundDiv(10000 * (total_candidates - user_rank),
                             total_candidates - 1)

calculate_combined_score(exam_score, pms_score, seniority_score) ==
    IF exam_score = NoScore \/ pms_score = NoScore \/ seniority_score = NoScore
    THEN 0
    ELSE RoundDiv(exam_score * 70 + pms_score * 20 + seniority_score * 10, 100)

\* users[uid].exam is the percentage of the latest completed submission and
\* users[uid].pms the percentage of the latest evaluation; 0 when there is none
calculate_user_rrr_scores(uid, cands) ==
    LET seniority_score == calculate_seniority_score(uid, cands)
    IN [user_id |-> uid,
        exam_score |-> users[uid].exam,
        pms_score |-> users[uid].pms,
        seniority_score |-> seniority_score,
        combined_score |->
            calculate_combined_score(users[uid].exam, users[uid].pms, seniority_score)]

----------------------------------------------------------------------------
(* Ranking & Allocation Engine *)

\* the active users of the grade, in the order ord of the table scan
get_eligible_candidates_for_grade(grade, ord) ==
    Filter(ord, {u \in DOMAIN users :
                    users[u].conraiss_grade = grade /\ users[u].is_active})

WithRank(c, r) ==
    [user_id |-> c.user_id, exam_score |-> c.exam_score, pms_score |-> c.pms_score,
     seniority_score |-> c.seniority_score, combined_score |-> c.combined_score,
     rank |-> r]

\* a ranking by combined score alone, without the seniority tie-breaker; the
\* ordering property of rank_candidates tells the two apart
RankByCombinedOnly(cands) ==
    IF cands = <<>> THEN <<>>
    ELSE LET candidate_scores ==
                 List([i \in DOMAIN cands |-> calculate_user_rrr_scores(cands[i], cands)])
             sorted_candidates ==
                 SortedReverse(List([i \in DOMAIN cands |->
                     << <<candidate_scores[i].combined_score>>, candidate_scores[i] >>]))
         IN List([i \in DOMAIN sorted_candidates |-> WithRank(sorted_candidates[i], i)])

rank_candidates(cands) ==
    IF cands = <<>> THEN <<>>
    ELSE LET candidate_scores ==
                 List([i \in DOMAIN cands |-> calculate_user_rrr_scores(cands[i], cands)])
             sorted_candidates ==
                 SortedReverse(List([i \in DOMAIN cands |->
                     << <<candidate_scores[i].combined_score,
                          candidate_scores[i].seniority_score>>,
                        candidate_scores[i] >>]))
         IN List([i \in DOMAIN sorted_candidates |-> WithRank(sorted_candidates[i], i)])

\* a partition whose reward tier starts right after the promoted tier, as if
\* recognition took no ranks; the partition property tells the two apart
PartitionIgnoringRecognition(ranked_candidates, promotion_vacancies, recognition_slots, reward_slots) ==
    LET promoted == IF promotion_vacancies > 0
                    THEN PySlice(ranked_candidates, 0, promotion_vacancies) ELSE <<>>
        recognition_start == Len(promoted)
        recognized == IF recognition_slots > 0
                      THEN PySlice(ranked_candidates, recognition_start,
                                   recognition_start + recognition_slots)
                      ELSE <<>>
        rewarded == IF reward_slots > 0
                    THEN PySlice(ranked_candidates, recognition_start,
                                 recognition_start + reward_slots)
                    ELSE <<>>
    IN [promoted |-> promoted, recognized |-> recognized, rewarded |-> rewarded]

\* the partition of the ranked list by position
Partition(ranked_candidates, promotion_vacancies, recognition_slots, reward_slots) ==
    LET promoted == IF promotion_vacancies > 0
                    THEN PySlice(ranked_candidates, 0, promotion_vacancies) ELSE <<>>
        recognition_start == Len(promoted)
        recognition_end == recognition_start + recognition_slots
        recognized == IF recognition_slots > 0
                      THEN PySlice(ranked_candidates, recognition_start, recognition_end)
                      ELSE <<>>
        reward_start == recognition_end
        reward_end == reward_start + reward_slots
        rewarded == IF reward_slots > 0
                    THEN PySlice(ranked_candidates, reward_start, reward_end) ELSE <<>>
    IN [promoted |-> promoted, recognized |-> recognized, rewarded |-> rewarded]

allocate_rrr_for_grade(grade, ord, promotion_vacancies, recognition_slots, reward_slots) ==
    LET candidates == get_eligible_candidates_for_grade(grade, ord)
        ranked_candidates == rank_candidates(candidates)
        part == Partition(ranked_candidates, promotion_vacancies,
                          recognition_slots, reward_slots)
    IN IF candidates = <<>>
       THEN [grade |-> grade, total_candidates |-> 0, promoted |-> <<>>,
             recognized |-> <<>>, rewarded |-> <<>>,
             message |-> "No eligible candidates found"]
       ELSE [grade |-> grade, total_candidates |-> Len(ranked_candidates),
             all_candidates |-> ranked_candidates, promoted |-> part.promoted,
             recognized |-> part.recognized, rewarded |-> part.rewarded,
             promotion_vacancies |-> promotion_vacancies,
             recognition_slots |-> recognition_slots, reward_slots |-> reward_slots]

\* the grades with a vacancy row of the cycle, active or not; the entry of a
\* grade whose row is inactive tells the two apart
VacancyGradesActiveOrNot(promotion_cycle) ==
    {k[1] : k \in {key \in DOMAIN vacancies :
                      /\ key[2] = promotion_cycle
                      /\ vacancies[key] # NoRow}}

\* the grades with an active vacancy row of the cycle
ActiveVacancyGrades(promotion_cycle) ==
    {k[1] : k \in {key \in DOMAIN vacancies :
                      /\ key[2] = promotion_cycle
                      /\ vacancies[key] # NoRow
                      /\ vacancies[key].is_active}}

allocate_rrr_for_all_grades(promotion_cycle, ord) ==
    [g \in ActiveVacancyGrades(promotion_cycle) |->
        allocate_rrr_for_grade(g, ord,
            vacancies[<<g, promotion_cycle>>].promotion_vacancies,
            vacancies[<<g, promotion_cycle>>].recognition_slots,
            vacancies[<<g, promotion_cycle>>].reward_slots)]

----------------------------------------------------------------------------
(* Step Allocator *)

\* None of get_salary_for_grade_step
NoSalary == -1

get_max_step_for_grade(grade) ==
    IF 2 <= grade /\ grade <= 9 THEN 15
    ELSE IF 10 <= grade /\ grade <= 12 THEN 11
    ELSE IF 13 <= grade /\ grade <= 15 THEN 9
    ELSE 15

\* the annual salary of the active salary_scale row of (grade, step)
get_salary_for_grade_step(grade, step) ==
    IF <<grade, step>> \in DOMAIN salary THEN salary[<<grade, step>>] ELSE NoSalary

\* the steps of the new grade that pay at least the current salary; the
\* strict increment of the recommended step tells the two apart
NoDecrementSteps(current_salary, new_grade) ==
    {step \in 1 .. get_max_step_for_grade(new_grade) :
        LET new_salary == get_salary_for_grade_step(new_grade, step)
        IN new_salary # NoSalary /\ new_salary # 0 /\ new_salary >= current_salary}

\* the steps of the new grade whose salary is an increment
IncrementSteps(current_salary, new_grade) ==
    {step \in 1 .. get_max_step_for_grade(new_grade) :
        LET new_salary == get_salary_for_grade_step(new_grade, step)
        IN new_salary # NoSalary /\ new_salary # 0 /\ new_salary > current_salary}

calculate_promotion_step(current_grade, current_step, new_grade) ==
    LET current_salary == get_salary_for_grade_step(current_grade, current_step)
        max_step == get_max_step_for_grade(new_grade)
        steps == IncrementSteps(current_salary, new_grade)
    IN IF current_salary = NoSalary
       THEN [err |-> "value_error"]
       ELSE IF steps # {}
       THEN LET step == CHOOSE x \in steps : \A y \in steps : x <= y
            IN [err |-> "none", step |-> step, current_salary |-> current_salary,
                new_salary |-> get_salary_for_grade_step(new_grade, step)]
       ELSE LET new_salary == get_salary_for_grade_step(new_grade, max_step)
            IN [err |-> "none", step |-> max_step, current_salary |-> current_salary,
                new_salary |-> IF new_salary # NoSalary /\ new_salary # 0
                               THEN new_salary ELSE current_salary]

\* get_promotion_step_recommendation; percentages in hundredths
get_promotion_step_recommendation(user, target_grade) ==
    IF user.conraiss_grade = 0 \/ user.conraiss_step = 0
    THEN [can_calculate |-> FALSE, error |-> "no_grade_step"]
    ELSE LET calculated == calculate_promotion_step(user.conraiss_grade,
                                                    user.conraiss_step, target_grade)
         IN IF calculated.err # "none"
            THEN [can_calculate |-> FALSE, error |-> calculated.err]
            ELSE LET salary_increment ==
                         calculated.new_salary - calculated.current_salary
                 IN [can_calculate |-> TRUE,
                     current_grade |-> user.conraiss_grade,
                     current_step |-> user.conraiss_step,
                     current_salary |-> calculated.current_salary,
                     target_grade |-> target_grade,
                     recommended_step |-> calculated.step,
                     new_salary |-> calculated.new_salary,
                     salary_increment |-> salary_increment,
                     increment_percentage |->
                         RoundDiv(10000 * salary_increment, calculated.current_salary)]

----------------------------------------------------------------------------
(* Recommendation Ledger *)

\* a new row of rrr_recommendation with the defaults of its columns
RRRRecommendation(user_id, promotion_cycle, conraiss_grade) ==
    [user_id |-> user_id, promotion_cycle |-> promotion_cycle,
     conraiss_grade |-> conraiss_grade,
     exam_score |-> 0, pms_score |-> 0, seniority_score |-> 0, combined_score |-> 0,
     rank_in_grade |-> 0, total_candidates_in_grade |-> 0,
     is_promoted |-> FALSE, is_recognized |-> FALSE, is_rewarded |-> FALSE,
     promoted_to_grade |-> 0, promoted_to_step |-> 0,
     promotion_effective_date |-> NoDate,
     status |-> "Pending", recommended_by |-> 0, approved_by |-> 0,
     approval_date |-> NoDate, rejection_reason |-> ""]

\* a row of step_increment_log
StepIncrementLog(user_id, previous_step, new_step, increment_date, increment_type, processed_by) ==
    [user_id |-> user_id, previous_step |-> previous_step, new_step |-> new_step,
     increment_date |-> increment_date, increment_type |-> increment_type,
     processed_by |-> processed_by]

\* RRRRecommendation.query.filter_by(user_id, promotion_cycle).first():
\* the id of the row, 0 without one
ExistingRecommendation(rs, user_id, promotion_cycle) ==
    LET found == {i \in DOMAIN rs : /\ rs[i].user_id = user_id
                                    /\ rs[i].promotion_cycle = promotion_cycle}
    IN IF found = {} THEN 0 ELSE CHOOSE i \in found : \A j \in found : i <= j

\* an upsert that marks every ranked candidate below the promoted as
\* recognized; the flags of a rewarded candidate tell the two apart
UpsertedWithoutReward(rs, grade, allocation, candidate, promotion_cycle, recommended_by) ==
    LET existing == ExistingRecommendation(rs, candidate.user_id, promotion_cycle)
        recommendation == IF existing # 0 THEN rs[existing]
                          ELSE RRRRecommendation(candidate.user_id, promotion_cycle, grade)
        is_promoted == candidate \in Range(allocation.promoted)
    IN [recommendation EXCEPT
            !.exam_score = candidate.exam_score,
            !.pms_score = candidate.pms_score,
            !.seniority_score = candidate.seniority_score,
            !.combined_score = candidate.combined_score,
            !.rank_in_grade = candidate.rank,
            !.total_candidates_in_grade = allocation.total_candidates,
            !.is_promoted = is_promoted,
            !.is_recognized = ~is_promoted,
            !.is_rewarded = FALSE,
            !.promoted_to_grade = IF is_promoted THEN grade + 1 ELSE @,
            !.status = IF is_promoted THEN "Pending" ELSE @,
            !.recommended_by = IF recommended_by # 0 THEN recommended_by ELSE @]

\* the body of the candidate loop of generate_rrr_recommendations: the row of
\* the candidate after the upsert
UpsertedRecommendation(rs, grade, allocation, candidate, promotion_cycle, recommended_by) ==
    LET existing == ExistingRecommendation(rs, candidate.user_id, promotion_cycle)
        recommendation == IF existing # 0 THEN rs[existing]
                          ELSE RRRRecommendation(candidate.user_id, promotion_cycle, grade)
        is_promoted == candidate \in Range(allocation.promoted)
    IN [recommendation EXCEPT
            !.exam_score = candidate.exam_score,
            !.pms_score = candidate.pms_score,
            !.seniority_score = candidate.seniority_score,
            !.combined_score = candidate.combined_score,
            !.rank_in_grade = candidate.rank,
            !.total_candidates_in_grade = allocation.total_candidates,
            !.is_promoted = is_promoted,
            !.is_recognized = candidate \in Range(allocation.recognized),
            !.is_rewarded = candidate \in Range(allocation.rewarded),
            !.promoted_to_grade = IF is_promoted THEN grade + 1 ELSE @,
            !.status = IF is_promoted THEN "Pending" ELSE @,
            !.recommended_by = IF recommended_by # 0 THEN recommended_by ELSE @]

RECURSIVE GenerateForCandidates(_, _, _, _, _, _)
GenerateForCandidates(rs, grade, allocation, candidates, promotion_cycle, recommended_by) ==
    IF candidates = <<>> THEN rs
    ELSE LET existing ==
                 ExistingRecommendation(rs, Head(candidates).user_id, promotion_cycle)
             row == UpsertedRecommendation(rs, grade, allocation, Head(candidates),
                                           promotion_cycle, recommended_by)
         IN GenerateForCandidates(
                IF existing # 0 THEN [rs EXCEPT ![existing] = row] ELSE Append(rs, row),
                grade, allocation, Tail(candidates), promotion_cycle, recommended_by)

\* the grades of a result map in ascending order
RECURSIVE GradesInOrder(_)
GradesInOrder(grades) ==
    IF grades = {} THEN <<>>
    ELSE LET g == CHOOSE x \in grades : \A y \in grades : x <= y
         IN <<g>> \o GradesInOrder(grades \ {g})

RECURSIVE GenerateForGrades(_, _, _, _, _)
GenerateForGrades(rs, allocation_results, grades, promotion_cycle, recommended_by) ==
    IF grades = <<>> THEN rs
    ELSE GenerateForGrades(
             GenerateForCandidates(rs, Head(grades), allocation_results[Head(grades)],
                                   allocation_results[Head(grades)].all_candidates,
                                   promotion_cycle, recommended_by),
             allocation_results, Tail(grades), promotion_cycle, recommended_by)

\* allocation['all_candidates'] of a grade whose pool was empty raises KeyError
\* before the commit
GenerateRaises(allocation_results) ==
    \E g \in DOMAIN allocation_results :
        "all_candidates" \notin DOMAIN allocation_results[g]

\* generate_rrr_recommendations: the table after the commit
generate_rrr_recommendations(rs, allocation_results, promotion_cycle, recommended_by) ==
    GenerateForGrades(rs, allocation_results,
                      GradesInOrder(DOMAIN allocation_results),
                      promotion_cycle, recommended_by)

\* the commit of the promotion by approve_rrr_recommendation
CommitsPromotion(recommendation) ==
    /\ recommendation.is_promoted
    /\ recommendation.promoted_to_grade # 0
    /\ recommendation.promoted_to_step # 0

\* an approval that keeps the count of failed attempts; the count after an
\* approved promotion tells the two apart
ApprovedUserKeepingFailures(user, recommendation, day) ==
    [user EXCEPT
        !.conraiss_grade = recommendation.promoted_to_grade,
        !.conraiss_step = recommendation.promoted_to_step,
        !.date_of_last_promotion =
            IF recommendation.promotion_effective_date # NoDate
            THEN recommendation.promotion_effective_date ELSE day,
        !.last_rrr_date = day,
        !.last_rrr_type = "Promotion"]

\* the employee after the approval of a promotion
ApprovedUser(user, recommendation, day) ==
    [user EXCEPT
        !.conraiss_grade = recommendation.promoted_to_grade,
        !.conraiss_step = recommendation.promoted_to_step,
        !.date_of_last_promotion =
            IF recommendation.promotion_effective_date # NoDate
            THEN recommendation.promotion_effective_date ELSE day,
        !.last_rrr_date = day,
        !.last_rrr_type = "Promotion",
        !.failed_promotion_attempts = 0]

\* a rejection that counts a failed attempt whatever the recommendation is;
\* the effect of a rejection on a recognition tells the two apart
RejectedUserAlwaysCounted(user, recommendation) ==
    [user EXCEPT !.failed_promotion_attempts = @ + 1]

\* the employee after the rejection of one of their recommendations
RejectedUser(user, recommendation) ==
    IF recommendation.is_promoted
    THEN [user EXCEPT !.failed_promotion_attempts = @ + 1]
    ELSE user

NoLast == [op |-> "none"]

\* a lookup that lets an unknown id through; the not-found property tells the
\* two apart
NoError(operation, recommendation_id) ==
    [op |-> operation, id |-> recommendation_id, err |-> "none"]

\* raise ValueError("Recommendation ... not found")
NotFoundError(operation, recommendation_id) ==
    [op |-> operation, id |-> recommendation_id, err |-> "not_found"]

\* approve_rrr_recommendation(recommendation_id, approved_by)
Approve(recommendation_id, approved_by) ==
    IF recommendation_id \notin DOMAIN recs
    THEN /\ last' = NotFoundError("approve", recommendation_id)
         /\ UNCHANGED <<users, vacancies, salary, recs, log, today, sessions>>
    ELSE LET recommendation == recs[recommendation_id]
         IN /\ recs' = [recs EXCEPT ![recommendation_id] =
                           [@ EXCEPT !.status = "Approved",
                                     !.approved_by = approved_by,
                                     !.approval_date = today]]
            /\ users' = IF CommitsPromotion(recommendation)
                        THEN [users EXCEPT ![recommendation.user_id] =
                                 ApprovedUser(@, recommendation, today)]
                        ELSE users
            /\ last' = [op |-> "approve", id |-> recommendation_id, err |-> "none",
                        was |-> recommendation.status, approved_by |-> approved_by]
            /\ UNCHANGED <<vacancies, salary, log, today, sessions>>

\* reject_rrr_recommendation(recommendation_id, rejection_reason)
Reject(recommendation_id, rejection_reason) ==
    IF recommendation_id \notin DOMAIN recs
    THEN /\ last' = NotFoundError("reject", recommendation_id)
         /\ UNCHANGED <<users, vacancies, salary, recs, log, today, sessions>>
    ELSE LET recommendation == recs[recommendation_id]
         IN /\ recommendation.is_promoted =>
                   users[recommendation.user_id].failed_promotion_attempts < MaxFailed
            /\ recs' = [recs EXCEPT ![recommendation_id] =
                           [@ EXCEPT !.status = "Rejected",
                                     !.rejection_reason = rejection_reason]]
            /\ users' = [users EXCEPT ![recommendation.user_id] =
                            RejectedUser(@, recommendation)]
            /\ last' = [op |-> "reject", id |-> recommendation_id, err |-> "none",
                        was |-> recommendation.status, reason |-> rejection_reason]
            /\ UNCHANGED <<vacancies, salary, log, today, sessions>>

\* the allocate_rrr endpoint: allocation of every grade of the cycle, then the
\* materialization of the recommendations
AllocateRRR(promotion_cycle, ord, current_user_id) ==
    LET allocation_results == allocate_rrr_for_all_grades(promotion_cycle, ord)
    IN /\ IF DOMAIN allocation_results = {}
          THEN /\ last' = [op |-> "allocate_rrr", err |-> "no_vacancies"]
               /\ recs' = recs
          ELSE IF GenerateRaises(allocation_results)
          THEN /\ last' = [op |-> "allocate_rrr", err |-> "key_error"]
               /\ recs' = recs
          ELSE /\ last' = [op |-> "allocate_rrr", err |-> "none"]
               /\ recs' = generate_rrr_recommendations(recs, allocation_results,
                                                       promotion_cycle, current_user_id)
       /\ UNCHANGED <<users, vacancies, salary, log, today, sessions>>

\* promoted_to_step is a column no operation of the engine assigns (and
\* promotion_effective_date stays NULL); the personnel office fills the step in
\* on a Pending promotion
SetPromotedToStep(recommendation_id, step) ==
    /\ recommendation_id \in DOMAIN recs
    /\ recs[recommendation_id].status = "Pending"
    /\ recs[recommendation_id].is_promoted
    /\ recs[recommendation_id].promoted_to_step = 0
    /\ recs' = [recs EXCEPT ![recommendation_id].promoted_to_step = step]
    /\ last' = [op |-> "set_promoted_to_step", id |-> recommendation_id]
    /\ UNCHANGED <<users, vacancies, salary, log, today, sessions>>

----------------------------------------------------------------------------
(* Allocation specification: the ranking and allocation engine applied to  *)
(* the pools and vacancy rows the tables can hold                          *)

User(grade, step, exam, pms) ==
    [conraiss_grade |-> grade, conraiss_step |-> step,
     failed_promotion_attempts |-> 0, date_of_last_promotion |-> NoDate,
     last_rrr_date |-> NoDate, last_rrr_type |-> "", is_active |-> TRUE,
     confirmation_date |-> 1, date_of_birth |-> 1, file_no |-> 1,
     exam |-> exam, pms |-> pms]

\* a row of rrr_vacancy as create_or_update_vacancy stores it
Vacancy(promotion_vacancies, recognition_slots, reward_slots, is_active) ==
    [promotion_vacancies |-> promotion_vacancies,
     recognition_slots |-> recognition_slots,
     reward_slots |-> reward_slots, is_active |-> is_active]

\* salary_scale: annual salary of the active row of (grade, step), 0 without one
SalaryScale == [k \in (2 .. 16) \X (1 .. 15) |-> 30 * k[1] + 10 * k[2]]

AllocGrades == {7}
RankGrades == {7, 8}

\* The profiles of the pools.  Two employees of one profile tie on every
\* seniority key.  In a pool of two of the first profile and one of the
\* second, the less senior of the former and the latter have the same combined
\* score 70.00 and seniority decides between them.
RankProfiles ==
    << User(7, 10, 8000, 4500), User(7, 9, 8000, 7000),
       User(8, 10, 8000, 7000), User(7, 10, 6000, 4500) >>

AllocProfiles == SubSeq(RankProfiles, 1, 3)

\* Each retrieval order of each assignment of profiles is reached from an
\* assignment that is non-decreasing in the user id, so only these start.
InitPool(profiles) ==
    /\ \E f \in [1 .. MaxPool -> DOMAIN profiles] :
          /\ \A i, j \in 1 .. MaxPool : i < j => f[i] <= f[j]
          /\ users = [i \in 1 .. MaxPool |-> profiles[f[i]]]
    /\ salary = SalaryScale
    /\ recs = <<>>
    /\ sessions = <<>>
    /\ log = <<>>
    /\ today = 0
    /\ last = NoLast

InitAlloc ==
    /\ InitPool(AllocProfiles)
    /\ \E p, r, w \in SlotValues :
          vacancies = [k \in AllocGrades \X Cycles |-> Vacancy(p, r, w, TRUE)]

\* allocate_rrr_for_all_grades(cycle) with the users retrieved in order ord
AllocateAll(cycle, ord) ==
    /\ last' = [op |-> "allocate_rrr_for_all_grades", cycle |-> cycle,
                ret |-> allocate_rrr_for_all_grades(cycle, ord)]
    /\ UNCHANGED <<users, vacancies, salary, recs, log, today, sessions>>

NextAlloc ==
    \E cycle \in Cycles, ord \in Perms(DOMAIN users) : AllocateAll(cycle, ord)

SpecAlloc == InitAlloc /\ [][NextAlloc]_vars

----------------------------------------------------------------------------
(* Ranking specification: rank_candidates applied to the pool of a grade   *)

InitRank ==
    /\ InitPool(RankProfiles)
    /\ vacancies = [k \in AllocGrades \X Cycles |-> NoRow]

RankCandidates(grade, ord) ==
    LET candidates == get_eligible_candidates_for_grade(grade, ord)
    IN /\ last' = [op |-> "rank_candidates", candidates |-> candidates,
                   ret |-> rank_candidates(candidates)]
       /\ UNCHANGED <<users, vacancies, salary, recs, log, today, sessions>>

NextRank ==
    \E grade \in RankGrades, ord \in Perms(DOMAIN users) : RankCandidates(grade, ord)

SpecRank == InitRank /\ [][NextRank]_vars

----------------------------------------------------------------------------
(* Ledger specification: allocation runs, approvals and rejections *)

LedgerGrades == {7, 8}
Admins == {9}
Reasons == {"not confirmed"}
PromotionSteps == {3}

StaffProfiles ==
    << User(7, 10, 8000, 7000), User(7, 9, 6000, 7000), User(8, 2, 8000, 7000) >>

\* the vacancy rows of the cycle: of grade 7 only, of both grades, or inactive
VacancyTables ==
    {[k \in LedgerGrades \X Cycles |->
         IF k[1] = 7 \/ both THEN Vacancy(1, 1, 0, active) ELSE NoRow] :
       both \in BOOLEAN, active \in BOOLEAN}

Init ==
    /\ \E f \in [1 .. NumStaff -> DOMAIN StaffProfiles] :
          /\ \A i, j \in 1 .. NumStaff : i < j => f[i] <= f[j]
          /\ users = [i \in 1 .. NumStaff |-> StaffProfiles[f[i]]]
    /\ vacancies \in VacancyTables
    /\ salary = SalaryScale
    /\ recs = <<>>
    /\ sessions = <<>>
    /\ log = <<>>
    /\ today = 0
    /\ last = NoLast

Next ==
    \/ \E cycle \in Cycles, ord \in Perms(DOMAIN users), admin \in Admins :
          AllocateRRR(cycle, ord, admin)
    \/ \E id \in 1 .. Len(recs) + 1, admin \in Admins : Approve(id, admin)
    \/ \E id \in 1 .. Len(recs) + 1, reason \in Reasons : Reject(id, reason)
    \/ \E id \in DOMAIN recs, step \in PromotionSteps : SetPromotedToStep(id, step)

Spec == Init /\ [][Next]_vars

----------------------------------------------------------------------------
(* Properties of the recommendation ledger (specification Spec).  The      *)
(* variable last names the call of the step, so that a property of one     *)
(* operation is an action property over the steps that operation takes.    *)

Decided == {"approve", "reject"}

\* C1: approve or reject of a recommendation that is not Pending fails with
\* an invalid-state error and leaves the recommendations and the employees
\* unchanged, so a recommendation changes status at most once.
TerminalStatusIsFinal ==
    [][\A id \in DOMAIN recs :
          (last'.op \in Decided /\ last'.id = id /\ recs[id].status # "Pending")
              => /\ last'.err = "invalid_state"
                 /\ recs' = recs
                 /\ users' = users]_vars

\* C2: approving a Pending promotion whose target grade and step are present
\* sets it Approved with approver and timestamp, moves the employee to the
\* targets with failed_promotion_attempts 0, and appends exactly one log
\* row of type Promotion from the employee's previous step to the target step.
ApprovalCommitsPromotionWithLog ==
    [][\A id \in DOMAIN recs :
          (/\ last'.op = "approve" /\ last'.id = id
           /\ recs[id].status = "Pending" /\ CommitsPromotion(recs[id]))
              => LET recommendation == recs[id]
                     uid == recommendation.user_id
                 IN /\ recs'[id].status = "Approved"
                    /\ recs'[id].approved_by = last'.approved_by
                    /\ recs'[id].approval_date = today
                    /\ users'[uid].conraiss_grade = recommendation.promoted_to_grade
                    /\ users'[uid].conraiss_step = recommendation.promoted_to_step
                    /\ users'[uid].failed_promotion_attempts = 0
                    /\ Len(log') = Len(log) + 1
                    /\ SubSeq(log', 1, Len(log)) = log
                    /\ log'[Len(log')].user_id = uid
                    /\ log'[Len(log')].increment_type = "Promotion"
                    /\ log'[Len(log')].previous_step = users[uid].conraiss_step
                    /\ log'[Len(log')].new_step = recommendation.promoted_to_step]_vars

\* C3: approving a Pending promotion as the materialization left it (target
\* grade one above the employee's grade, no target step) puts the employee
\* at the target grade, at the step calculate_promotion_step recommends from
\* the salary table of that moment.
StepDeterminedAtApproval ==
    [][\A id \in DOMAIN recs :
          (/\ last'.op = "approve" /\ last'.id = id
           /\ recs[id].status = "Pending" /\ recs[id].is_promoted
           /\ recs[id].promoted_to_step = 0
           /\ recs[id].promoted_to_grade = users[recs[id].user_id].conraiss_grade + 1)
              => LET recommendation == recs[id]
                     uid == recommendation.user_id
                     recommended ==
                         calculate_promotion_step(users[uid].conraiss_grade,
                                                  users[uid].conraiss_step,
                                                  recommendation.promoted_to_grade)
                 IN /\ recommended.err = "none"
                    /\ users'[uid].conraiss_grade = recommendation.promoted_to_grade
                    /\ users'[uid].conraiss_step = recommended.step]_vars

\* C4: rejecting a Pending recommendation sets it Rejected with the given
\* reason; the employee's failed_promotion_attempts grows by exactly 1 if
\* the recommendation is a promotion and is unchanged otherwise; every other
\* field of every employee, and the Step Increment Log, are unchanged.
RejectPendingEffect ==
    [][\A id \in DOMAIN recs :
          (last'.op = "reject" /\ last'.id = id /\ recs[id].status = "Pending")
              => LET recommendation == recs[id]
                     uid == recommendation.user_id
                 IN /\ last'.err = "none"
                    /\ recs' = [recs EXCEPT ![id].status = "Rejected",
                                            ![id].rejection_reason = last'.reason]
                    /\ users' = [users EXCEPT ![uid].failed_promotion_attempts =
                                    IF recommendation.is_promoted THEN @ + 1 ELSE @]
                    /\ users'[uid].conraiss_grade = users[uid].conraiss_grade
                    /\ users'[uid].conraiss_step = users[uid].conraiss_step
                    /\ users'[uid].date_of_last_promotion =
                           users[uid].date_of_last_promotion
                    /\ log' = log]_vars

\* a Pending recognition and a Pending promotion have both been rejected: the
\* promoted employee has one failed attempt, the recognized one none
RejectedBothKinds ==
    /\ last.op = "reject" /\ last.err = "none" /\ last.was = "Pending"
    /\ \E i, j \in DOMAIN recs :
          /\ recs[i].status = "Rejected" /\ recs[i].is_promoted
          /\ users[recs[i].user_id].failed_promotion_attempts = 1
          /\ recs[j].status = "Rejected" /\ ~recs[j].is_promoted
          /\ users[recs[j].user_id].failed_promotion_attempts = 0

\* C5: approve or reject of an id without a recommendation fails with a
\* not-found error and changes no recommendation, employee or log row.
UnknownIdChangesNothing ==
    [][(last'.op \in Decided /\ last'.id \notin DOMAIN recs)
          => /\ last'.err = "not_found"
             /\ recs' = recs
             /\ users' = users
             /\ log' = log
             /\ vacancies' = vacancies]_vars

\* a call with an unknown id has failed while the ledger holds recommendations
UnknownIdRefused ==
    /\ last.op \in Decided
    /\ last.err = "not_found"
    /\ last.id \notin DOMAIN recs
    /\ recs # <<>>

\* C6: a materialization run never changes the status of a recommendation
\* that is Approved or Rejected.
RerunKeepsTerminalStatus ==
    [][last'.op = "allocate_rrr"
          => \A id \in DOMAIN recs :
                recs[id].status \in {"Approved", "Rejected"}
                    => recs'[id].status = recs[id].status]_vars

----------------------------------------------------------------------------
(* Properties of the allocation (specification SpecAlloc): last.ret maps   *)
(* each grade with an active vacancy row to the result of                  *)
(* allocate_rrr_for_grade                                                  *)

Min(a, b) == IF a <= b THEN a ELSE b

UserIds(s) == {s[i].user_id : i \in DOMAIN s}

UserIdSeq(s) == [i \in DOMAIN s |-> s[i].user_id]

\* C7: whatever slot counts the vacancy row holds, the three tiers are
\* pairwise disjoint and none is longer than its slot count.
SlotConservation ==
    last.op = "allocate_rrr_for_all_grades"
        => \A g \in DOMAIN last.ret :
              LET a == last.ret[g]
                  v == vacancies[<<g, last.cycle>>]
              IN /\ UserIds(a.promoted) \cap UserIds(a.recognized) = {}
                 /\ UserIds(a.promoted) \cap UserIds(a.rewarded) = {}
                 /\ UserIds(a.recognized) \cap UserIds(a.rewarded) = {}
                 /\ Len(a.promoted) <= v.promotion_vacancies
                 /\ Len(a.recognized) <= v.recognition_slots
                 /\ Len(a.rewarded) <= v.reward_slots

\* C8: with non-negative slot counts P, R, W and N ranked candidates, promoted
\* is ranks 1 .. min(P, N), recognized the next min(R, N - |promoted|) ranks,
\* rewarded the next min(W, N - |promoted| - |recognized|) ranks, and the
\* candidates after them are in no tier.
PartitionByPosition ==
    last.op = "allocate_rrr_for_all_grades"
        => \A g \in DOMAIN last.ret :
              LET a == last.ret[g]
                  v == vacancies[<<g, last.cycle>>]
                  P == v.promotion_vacancies
                  R == v.recognition_slots
                  W == v.reward_slots
              IN (P >= 0 /\ R >= 0 /\ W >= 0 /\ a.total_candidates > 0)
                    => LET ranked == a.all_candidates
                           N == Len(ranked)
                           np == Min(P, N)
                           nr == Min(R, N - np)
                           nw == Min(W, N - np - nr)
                       IN /\ N = a.total_candidates
                          /\ a.promoted = SubSeq(ranked, 1, np)
                          /\ a.recognized = SubSeq(ranked, np + 1, np + nr)
                          /\ a.rewarded = SubSeq(ranked, np + nr + 1, np + nr + nw)
                          /\ \A i \in np + nr + nw + 1 .. N :
                                ranked[i].user_id \notin
                                    UserIds(a.promoted) \cup UserIds(a.recognized)
                                        \cup UserIds(a.rewarded)

\* three candidates, one promotion slot, no recognition slot and one reward
\* slot: rank 1 is promoted, rank 2 rewarded, rank 3 in no tier
RewardFollowsPromotionWithoutRecognition ==
    /\ last.op = "allocate_rrr_for_all_grades"
    /\ \E g \in DOMAIN last.ret :
          /\ vacancies[<<g, last.cycle>>].promotion_vacancies = 1
          /\ vacancies[<<g, last.cycle>>].recognition_slots = 0
          /\ vacancies[<<g, last.cycle>>].reward_slots = 1
          /\ last.ret[g].total_candidates = 3
          /\ Len(last.ret[g].promoted) = 1 /\ last.ret[g].promoted[1].rank = 1
          /\ last.ret[g].recognized = <<>>
          /\ Len(last.ret[g].rewarded) = 1 /\ last.ret[g].rewarded[1].rank = 2

\* the ranking and the tiers of an allocation result, as user ids
Outcome(ret) ==
    [g \in DOMAIN ret |->
        [ranking |-> IF ret[g].total_candidates > 0
                     THEN UserIdSeq(ret[g].all_candidates) ELSE <<>>,
         promoted |-> UserIdSeq(ret[g].promoted),
         recognized |-> UserIdSeq(ret[g].recognized),
         rewarded |-> UserIdSeq(ret[g].rewarded)]]

\* C10: two runs of the allocation over the same employees, scores and
\* vacancy rows give the same ranking and the same tiers, in whatever order
\* the candidates are retrieved.
AllocationIsDeterministic ==
    [][(/\ last.op = "allocate_rrr_for_all_grades"
        /\ last'.op = "allocate_rrr_for_all_grades"
        /\ last'.cycle = last.cycle)
          => Outcome(last'.ret) = Outcome(last.ret)]_vars

----------------------------------------------------------------------------
(* Properties of the ranking (specification SpecRank): last.candidates is  *)
(* the input of rank_candidates, last.ret its result                       *)

\* C9: the result holds every input candidate exactly once, ranks are the
\* list positions 1 .. N, a candidate ranked before another has a greater
\* combined score or the same combined score and no smaller seniority
\* score, and candidates equal on both keys keep their input order.
RankingIsOrderedPermutation ==
    last.op = "rank_candidates"
        => LET input == last.candidates
               ranked == last.ret
           IN /\ Len(ranked) = Len(input)
              /\ \A u \in Range(input) :
                    Cardinality({i \in DOMAIN ranked : ranked[i].user_id = u}) = 1
              /\ \A i \in DOMAIN ranked : ranked[i].rank = i
              /\ \A i, j \in DOMAIN ranked :
                    i < j =>
                       \/ ranked[i].combined_score > ranked[j].combined_score
                       \/ /\ ranked[i].combined_score = ranked[j].combined_score
                          /\ ranked[i].seniority_score >= ranked[j].seniority_score
              /\ \A i, j \in DOMAIN ranked :
                    (/\ i < j
                     /\ ranked[i].combined_score = ranked[j].combined_score
                     /\ ranked[i].seniority_score = ranked[j].seniority_score)
                        => IndexOf(input, ranked[i].user_id)
                               < IndexOf(input, ranked[j].user_id)

\* three candidates were ranked, two of them with the same combined score and
\* seniority deciding, the more senior one retrieved after the other
SeniorityBrokeTie ==
    /\ last.op = "rank_candidates"
    /\ Len(last.ret) = 3
    /\ \E i \in 1 .. 2 :
          /\ last.ret[i].combined_score = last.ret[i + 1].combined_score
          /\ last.ret[i].seniority_score > last.ret[i + 1].seniority_score
          /\ IndexOf(last.candidates, last.ret[i].user_id)
                > IndexOf(last.candidates, last.ret[i + 1].user_id)

----------------------------------------------------------------------------
(* Re-run of the materialization (specification Spec) *)

\* the fields of a recommendation that a materialization run computes
Computed(recommendation) ==
    [exam_score |-> recommendation.exam_score,
     pms_score |-> recommendation.pms_score,
     seniority_score |-> recommendation.seniority_score,
     combined_score |-> recommendation.combined_score,
     rank_in_grade |-> recommendation.rank_in_grade,
     total_candidates_in_grade |-> recommendation.total_candidates_in_grade,
     is_promoted |-> recommendation.is_promoted,
     is_recognized |-> recommendation.is_recognized,
     is_rewarded |-> recommendation.is_rewarded]

\* at most one recommendation per (candidate, cycle)
OneRowPerCandidate ==
    \A i, j \in DOMAIN recs :
        (recs[i].user_id = recs[j].user_id
            /\ recs[i].promotion_cycle = recs[j].promotion_cycle) => i = j

\* C11: there is at most one recommendation per (candidate, cycle), and a
\* materialization run that directly follows another one, the employees and
\* vacancy rows being the same, creates no row and leaves the computed fields
\* of every row as the first run set them.
RerunIsIdempotent ==
    [][/\ OneRowPerCandidate'
       /\ (/\ last.op = "allocate_rrr" /\ last.err = "none"
           /\ last'.op = "allocate_rrr" /\ last'.err = "none")
             => /\ Len(recs') = Len(recs)
                /\ \A id \in DOMAIN recs : Computed(recs'[id]) = Computed(recs[id])]_vars

----------------------------------------------------------------------------
(* Score specification: calculate_combined_score applied to component      *)
(* scores, None included                                                   *)

\* component scores in hundredths; 3333 makes the weighted sum need rounding
ScoreValues == {NoScore, 0, 3333, 5000, 7000, 8000, 10000}

\* tables without rows
InitEmpty ==
    /\ users = <<>>
    /\ vacancies = [k \in {} |-> NoRow]
    /\ salary = SalaryScale
    /\ recs = <<>>
    /\ sessions = <<>>
    /\ log = <<>>
    /\ today = 0
    /\ last = NoLast

CombinedScore(exam_score, pms_score, seniority_score) ==
    /\ last' = [op |-> "calculate_combined_score", exam_score |-> exam_score,
                pms_score |-> pms_score, seniority_score |-> seniority_score,
                ret |-> calculate_combined_score(exam_score, pms_score, seniority_score)]
    /\ UNCHANGED <<users, vacancies, salary, recs, log, today, sessions>>

NextScore ==
    \E exam_score, pms_score, seniority_score \in ScoreValues :
        CombinedScore(exam_score, pms_score, seniority_score)

SpecScore == InitEmpty /\ [][NextScore]_vars

\* a None component counted as 0
OrZero(score) == IF score = NoScore THEN 0 ELSE score

\* C12: the combined score is 0.70 exam + 0.20 performance + 0.10 seniority
\* rounded to 2 decimals, a None component counting as 0 while the others
\* keep their weights, and it lies in [0, 100].
CombinedScoreIsWeightedSum ==
    last.op = "calculate_combined_score"
        => /\ last.ret = RoundDiv(70 * OrZero(last.exam_score)
                                    + 20 * OrZero(last.pms_score)
                                    + 10 * OrZero(last.seniority_score), 100)
           /\ 0 <= last.ret /\ last.ret <= 10000

----------------------------------------------------------------------------
(* Seniority specification: User.calculate_seniority_score applied to an   *)
(* employee and a list of peers                                            *)

SeniorityProfiles ==
    << User(7, 10, 8000, 7000), User(7, 9, 8000, 7000), User(7, 8, 8000, 7000) >>

InitSeniority ==
    /\ \E f \in [1 .. MaxPeers -> DOMAIN SeniorityProfiles] :
          /\ \A i, j \in 1 .. MaxPeers : i < j => f[i] <= f[j]
          /\ users = [i \in 1 .. MaxPeers |-> SeniorityProfiles[f[i]]]
    /\ vacancies = [k \in {} |-> NoRow]
    /\ salary = SalaryScale
    /\ recs = <<>>
    /\ sessions = <<>>
    /\ log = <<>>
    /\ today = 0
    /\ last = NoLast

\* the lists of distinct employees
PeerLists == UNION {Perms(S) : S \in SUBSET DOMAIN users}

\* users[uid].calculate_seniority_score(peers); the function is pure, so one
\* call per behaviour covers it
SeniorityScore(uid, peers) ==
    /\ last = NoLast
    /\ last' = [op |-> "calculate_seniority_score", uid |-> uid, peers |-> peers,
                ret |-> calculate_seniority_score(uid, peers)]
    /\ UNCHANGED <<users, vacancies, salary, recs, log, today, sessions>>

NextSeniority ==
    \E uid \in DOMAIN users, peers \in PeerLists : SeniorityScore(uid, peers)

SpecSeniority == InitSeniority /\ [][NextSeniority]_vars

\* the peers in seniority order: sorted(peers, key=SeniorityKey)
SeniorityOrder(peers) ==
    Sorted([i \in DOMAIN peers |-> <<SeniorityKey(users[peers[i]]), peers[i]>>])

\* the claim as worded: the score is exactly ((N - rank) / (N - 1)) * 100
SeniorityScoreIsExactFormula ==
    last.op = "calculate_seniority_score"
        => LET N == Len(last.peers)
               rank == IndexOf(SeniorityOrder(last.peers), last.uid)
           IN IF last.peers = <<>> THEN last.ret = 10000
              ELSE IF last.uid \notin Range(last.peers) THEN last.ret = 0
              ELSE IF N = 1 THEN last.ret = 10000
              ELSE last.ret * (N - 1) = 10000 * (N - rank)

\* C13: the score of the candidate at position rank of the seniority order of
\* N > 1 peers is ((N - rank) / (N - 1)) * 100 rounded to 2 decimals, 100 for
\* the most senior and 0 for the most junior; it is 100 for an empty peer list
\* and for a peer group of the candidate alone, 0 for a candidate who is not
\* in the peer list.
SeniorityScoreIsRoundedFormula ==
    last.op = "calculate_seniority_score"
        => LET N == Len(last.peers)
               rank == IndexOf(SeniorityOrder(last.peers), last.uid)
           IN IF last.peers = <<>> THEN last.ret = 10000
              ELSE IF last.uid \notin Range(last.peers) THEN last.ret = 0
              ELSE IF N = 1 THEN last.ret = 10000
              ELSE /\ last.ret = RoundDiv(10000 * (N - rank), N - 1)
                   /\ rank = 1 => last.ret = 10000
                   /\ rank = N => last.ret = 0

\* the second of four peers scores 66.67
SecondOfFourPeers ==
    /\ last.op = "calculate_seniority_score"
    /\ Len(last.peers) = 4
    /\ IndexOf(SeniorityOrder(last.peers), last.uid) = 2
    /\ last.ret = 6667

----------------------------------------------------------------------------
(* Eligibility Evaluator *)

\* an eligibility cycle of 2 years up to grade 12; the time gate of grades
\* 6 to 12 tells the two apart
TwoYearCycle(conraiss_grade) ==
    IF 2 <= conraiss_grade /\ conraiss_grade <= 12 THEN 2
    ELSE IF 13 <= conraiss_grade /\ conraiss_grade <= 14 THEN 4
    ELSE IF conraiss_grade = 15 THEN 0
    ELSE 3

get_standard_eligibility_cycle(conraiss_grade) ==
    IF 2 <= conraiss_grade /\ conraiss_grade <= 5 THEN 2
    ELSE IF 6 <= conraiss_grade /\ conraiss_grade <= 12 THEN 3
    ELSE IF 13 <= conraiss_grade /\ conraiss_grade <= 14 THEN 4
    ELSE IF conraiss_grade = 15 THEN 0
    ELSE 3

has_active_disciplinary_action(user) == FALSE

\* a vacancy lookup that also returns inactive rows; the vacancy rule of the
\* evaluator tells the two apart
AnyVacancy(conraiss_grade, promotion_cycle) ==
    LET key == <<conraiss_grade, promotion_cycle>>
    IN IF key \in DOMAIN vacancies THEN vacancies[key] ELSE NoRow

\* RRRVacancy.query.filter_by(conraiss_grade, promotion_cycle,
\* is_active=True).first(): the row, NoRow without one
ActiveVacancy(conraiss_grade, promotion_cycle) ==
    LET key == <<conraiss_grade, promotion_cycle>>
    IN IF key \in DOMAIN vacancies /\ vacancies[key] # NoRow /\ vacancies[key].is_active
       THEN vacancies[key] ELSE NoRow

\* round(days / 365.25, 2) in hundredths of a year, for days >= 0
YearsRounded(days) == RoundDiv(400 * days, 1461)

\* is_eligible_for_promotion; a target_grade of 0 stands for None, a
\* promotion_cycle of "" for None.  days / 365.25 < required_years is
\* compared as 4 * days < 1461 * required_years.
is_eligible_for_promotion(user, target_grade, check_vacancy, promotion_cycle) ==
    IF user.conraiss_grade = 0 \/ user.conraiss_step = 0
    THEN [eligible |-> FALSE, reason |-> "missing_grade_step"]
    ELSE
    LET current_grade == user.conraiss_grade
        target == IF target_grade = 0 THEN current_grade + 1 ELSE target_grade
        days_in_grade ==
            IF user.date_of_last_promotion # NoDate
            THEN today - user.date_of_last_promotion
            ELSE today - user.date_of_first_appointment
        standard_cycle == get_standard_eligibility_cycle(current_grade)
        failed_attempts == user.failed_promotion_attempts
        required_years == IF failed_attempts > 0 THEN 1 ELSE standard_cycle
        vacancy == ActiveVacancy(current_grade, promotion_cycle)
    IN IF current_grade >= 15
       THEN [eligible |-> FALSE, reason |-> "max_grade", current_grade |-> current_grade]
       ELSE IF has_active_disciplinary_action(user)
       THEN [eligible |-> FALSE, reason |-> "disciplinary"]
       ELSE IF user.date_of_last_promotion = NoDate
               /\ user.date_of_first_appointment = NoDate
       THEN [eligible |-> FALSE, reason |-> "missing_dates"]
       ELSE IF 4 * days_in_grade < 1461 * required_years
       THEN [eligible |-> FALSE, reason |-> "insufficient_time",
             current_grade |-> current_grade,
             years_in_grade |-> YearsRounded(days_in_grade),
             required_years |-> required_years,
             years_remaining |->
                 RoundDiv(100 * (1461 * required_years - 4 * days_in_grade), 1461),
             failed_attempts |-> failed_attempts]
       ELSE IF check_vacancy /\ promotion_cycle # ""
               /\ (vacancy = NoRow \/ vacancy.promotion_vacancies <= 0)
       THEN [eligible |-> FALSE, reason |-> "no_vacancy",
             current_grade |-> current_grade, promotion_cycle |-> promotion_cycle]
       ELSE [eligible |-> TRUE, reason |-> "eligible",
             current_grade |-> current_grade, target_grade |-> target,
             years_in_grade |-> YearsRounded(days_in_grade),
             required_years |-> required_years,
             failed_attempts |-> failed_attempts,
             standard_cycle |-> standard_cycle]

----------------------------------------------------------------------------
(* Eligibility specification: is_eligible_for_promotion applied to one     *)
(* employee, the vacancy row of the employee's grade and the arguments      *)

\* the columns of User the evaluator reads
Employee(grade, step, last_promotion, first_appointment, failed) ==
    [conraiss_grade |-> grade, conraiss_step |-> step,
     date_of_last_promotion |-> last_promotion,
     date_of_first_appointment |-> first_appointment,
     failed_promotion_attempts |-> failed]

\* grades of every band, a missing grade (0), the top grade and one above
EligibilityGrades == {0, 2, 5, 6, 12, 13, 14, 15, 16}

\* days in grade on either side of 1, 2, 3 and 4 years, and 1.2 and 2.5 years
DaysInGradeValues == {365, 366, 439, 730, 731, 913, 1095, 1096, 1460, 1461}

\* the vacancy row of a grade: none, inactive, active without and with slots
VacancyRows ==
    {NoRow, Vacancy(1, 0, 0, FALSE), Vacancy(0, 0, 0, TRUE), Vacancy(1, 0, 0, TRUE)}

\* the evaluation takes place on day 1461, so that every date is a day >= 0
InitEligibility ==
    /\ today = 1461
    /\ \E grade \in EligibilityGrades, step \in {0, 1}, failed \in 0 .. MaxFailed,
          last_promotion \in {NoDate} \cup {1461 - d : d \in DaysInGradeValues},
          first_appointment \in {NoDate, 0, 1461 - 439},
          row \in VacancyRows :
          /\ users = << Employee(grade, step, last_promotion, first_appointment, failed) >>
          /\ vacancies = [k \in {grade} \X Cycles |-> row]
    /\ salary = SalaryScale
    /\ recs = <<>>
    /\ sessions = <<>>
    /\ log = <<>>
    /\ last = NoLast

\* is_eligible_for_promotion(users[uid], ...)
Evaluate(uid, target_grade, check_vacancy, promotion_cycle) ==
    /\ last' = [op |-> "is_eligible_for_promotion", uid |-> uid,
                target_grade |-> target_grade, check_vacancy |-> check_vacancy,
                promotion_cycle |-> promotion_cycle,
                ret |-> is_eligible_for_promotion(users[uid], target_grade,
                                                  check_vacancy, promotion_cycle)]
    /\ UNCHANGED <<users, vacancies, salary, recs, log, today, sessions>>

\* the evaluator writes nothing, so one call per behaviour covers it
NextEligibility ==
    /\ last = NoLast
    /\ \E uid \in DOMAIN users, target_grade \in {0, 9}, check_vacancy \in BOOLEAN,
          promotion_cycle \in Cycles \cup {""} :
          Evaluate(uid, target_grade, check_vacancy, promotion_cycle)

SpecEligibility == InitEligibility /\ [][NextEligibility]_vars

----------------------------------------------------------------------------
(* Properties of the evaluator (specification SpecEligibility) *)

Evaluated == last.op = "is_eligible_for_promotion"

\* the employee of the call
Subject == users[last.uid]

MissingGradeOrStep == Subject.conraiss_grade = 0 \/ Subject.conraiss_step = 0

HasDate ==
    Subject.date_of_last_promotion # NoDate \/ Subject.date_of_first_appointment # NoDate

\* days since the last promotion, or since the first appointment of an
\* employee never promoted
DaysSince ==
    IF Subject.date_of_last_promotion # NoDate
    THEN today - Subject.date_of_last_promotion
    ELSE today - Subject.date_of_first_appointment

\* the required years of the time gate
RequiredYears ==
    IF Subject.failed_promotion_attempts >= 1 THEN 1
    ELSE IF Subject.conraiss_grade \in 2 .. 5 THEN 2
    ELSE IF Subject.conraiss_grade \in 6 .. 12 THEN 3
    ELSE 4

InsufficientTime == 4 * DaysSince < 1461 * RequiredYears

\* the vacancy rule: requested with a cycle, and no active row of the
\* employee's grade and the cycle with a promotion slot
NoVacancy ==
    /\ last.check_vacancy
    /\ last.promotion_cycle # ""
    /\ LET key == <<Subject.conraiss_grade, last.promotion_cycle>>
       IN ~(/\ key \in DOMAIN vacancies
            /\ vacancies[key] # NoRow
            /\ vacancies[key].is_active
            /\ vacancies[key].promotion_vacancies > 0)

EligibleWithTarget ==
    /\ last.ret.eligible
    /\ last.ret.target_grade =
           IF last.target_grade = 0 THEN Subject.conraiss_grade + 1
           ELSE last.target_grade

\* the claim as worded: rule 2 is "grade is 15", and an employee without any
\* date passes the time rule
EligibilityRulesAsWorded ==
    Evaluated
        => LET expected ==
                   IF MissingGradeOrStep THEN "missing_grade_step"
                   ELSE IF Subject.conraiss_grade = 15 THEN "max_grade"
                   ELSE IF has_active_disciplinary_action(Subject) THEN "disciplinary"
                   ELSE IF HasDate /\ InsufficientTime THEN "insufficient_time"
                   ELSE IF NoVacancy THEN "no_vacancy"
                   ELSE "eligible"
           IN /\ last.ret.reason = expected
              /\ last.ret.eligible = (expected = "eligible")
              /\ expected = "eligible" => EligibleWithTarget

\* C14: the result is the outcome of the first failing rule in the order
\* grade or step missing, grade 15 or above, disciplinary hold, no date to
\* compute the time in grade from, insufficient time in grade, and, only if
\* check_vacancy is requested with a cycle, no active vacancy row with a
\* promotion slot; without a failing rule the employee is eligible with the
\* target grade defaulting to the grade above.
EligibilityFollowsFirstFailingRule ==
    Evaluated
        => LET expected ==
                   IF MissingGradeOrStep THEN "missing_grade_step"
                   ELSE IF Subject.conraiss_grade >= 15 THEN "max_grade"
                   ELSE IF has_active_disciplinary_action(Subject) THEN "disciplinary"
                   ELSE IF ~HasDate THEN "missing_dates"
                   ELSE IF InsufficientTime THEN "insufficient_time"
                   ELSE IF NoVacancy THEN "no_vacancy"
                   ELSE "eligible"
           IN /\ last.ret.reason = expected
              /\ last.ret.eligible = (expected = "eligible")
              /\ expected = "eligible" => EligibleWithTarget
              /\ (~last.check_vacancy \/ last.promotion_cycle = "")
                    => last.ret.reason # "no_vacancy"

\* the vacancy rule decided: with enough time in grade, the vacancy check is
\* requested with a cycle and the row of the grade is inactive
RefusedForInactiveVacancy ==
    /\ Evaluated
    /\ last.ret.reason = "no_vacancy"
    /\ vacancies[<<Subject.conraiss_grade, last.promotion_cycle>>] # NoRow
    /\ vacancies[<<Subject.conraiss_grade, last.promotion_cycle>>].promotion_vacancies > 0

\* C15: for an employee of grade 2 .. 14 with a step and a date, the time
\* rule passes exactly when days / 365.25 >= R, with R = 1 after a failed
\* attempt and else 2, 3 or 4 by grade band; when it fails, years_remaining
\* is R minus the years in grade.
TimeGate ==
    (Evaluated /\ ~MissingGradeOrStep /\ Subject.conraiss_grade \in 2 .. 14 /\ HasDate)
        => /\ (last.ret.reason = "insufficient_time") = InsufficientTime
           /\ InsufficientTime
                 => /\ last.ret.required_years = RequiredYears
                    /\ last.ret.years_in_grade = YearsRounded(DaysSince)
                    /\ last.ret.years_remaining =
                           100 * RequiredYears - last.ret.years_in_grade

\* grade 6, no failed attempt, 913 days in grade: 0.50 years remaining
HalfYearRemaining ==
    /\ Evaluated
    /\ Subject.conraiss_grade = 6
    /\ Subject.failed_promotion_attempts = 0
    /\ DaysSince = 913
    /\ last.ret.reason = "insufficient_time"
    /\ last.ret.years_remaining = 50

----------------------------------------------------------------------------
(* Step specification: the step recommendation over the salary tables of   *)
(* two grades, rows missing or not                                          *)

\* the steps of the two grades that may have an active salary row
StepRows == {1, 2, 15}

\* annual salaries; NoSalary for no active row
SalaryValues == {NoSalary, 100, 200, 300}

InitStep ==
    /\ salary \in [{7, 8} \X StepRows -> SalaryValues]
    /\ users = <<>>
    /\ vacancies = [k \in {} |-> NoRow]
    /\ recs = <<>>
    /\ sessions = <<>>
    /\ log = <<>>
    /\ today = 0
    /\ last = NoLast

\* calculate_promotion_step reads the salary table only, so one call per
\* behaviour covers it
CalculatePromotionStep(current_grade, current_step, new_grade) ==
    /\ last = NoLast
    /\ last' = [op |-> "calculate_promotion_step", current_grade |-> current_grade,
                current_step |-> current_step, new_grade |-> new_grade,
                ret |-> calculate_promotion_step(current_grade, current_step, new_grade)]
    /\ UNCHANGED <<users, vacancies, salary, recs, log, today, sessions>>

\* get_promotion_step_recommendation for an employee of the grade and step
RecommendStep(current_grade, current_step, target_grade) ==
    /\ last = NoLast
    /\ last' = [op |-> "get_promotion_step_recommendation",
                current_grade |-> current_grade, current_step |-> current_step,
                new_grade |-> target_grade,
                ret |-> get_promotion_step_recommendation(
                            [conraiss_grade |-> current_grade,
                             conraiss_step |-> current_step], target_grade)]
    /\ UNCHANGED <<users, vacancies, salary, recs, log, today, sessions>>

NextStep ==
    \/ \E current_step \in {1, 2, 3}, new_grade \in {8, 9} :
          CalculatePromotionStep(7, current_step, new_grade)
    \/ \E current_step \in {0, 1, 2}, target_grade \in {8, 9} :
          RecommendStep(7, current_step, target_grade)

SpecStep == InitStep /\ [][NextStep]_vars

\* the active salary of (grade, step), NoSalary without an active row
ActiveSalary(grade, step) ==
    IF <<grade, step>> \in DOMAIN salary THEN salary[<<grade, step>>] ELSE NoSalary

\* the steps of the grade that pay strictly more than the amount
BetterSteps(grade, amount) ==
    {k \in 1 .. get_max_step_for_grade(grade) :
        ActiveSalary(grade, k) # NoSalary /\ ActiveSalary(grade, k) > amount}

\* C16: calculate_promotion_step returns the smallest step of the target
\* grade whose active salary is strictly greater than the active salary of
\* the current grade and step, whenever there is one, with both salaries; it
\* fails if the current grade and step have no active salary row.
StepIsSmallestIncrement ==
    last.op = "calculate_promotion_step"
        => LET current == ActiveSalary(last.current_grade, last.current_step)
               better == BetterSteps(last.new_grade, current)
           IN /\ current = NoSalary => last.ret.err = "value_error"
              /\ (current # NoSalary /\ better # {})
                    => /\ last.ret.err = "none"
                       /\ last.ret.step \in better
                       /\ \A k \in better : last.ret.step <= k
                       /\ last.ret.current_salary = current
                       /\ last.ret.new_salary = ActiveSalary(last.new_grade, last.ret.step)

\* step 15 is recommended: step 1 has a row that pays no more and step 2 has
\* no row
ScanReachedLastStep ==
    /\ last.op = "calculate_promotion_step"
    /\ last.ret.err = "none"
    /\ last.ret.step = 15
    /\ last.ret.new_salary > last.ret.current_salary
    /\ ActiveSalary(last.new_grade, 1) # NoSalary
    /\ ActiveSalary(last.new_grade, 2) = NoSalary

\* the keys of the dictionary of a calculated recommendation
RecommendationFields ==
    {"can_calculate", "current_grade", "current_step", "current_salary", "target_grade",
     "recommended_step", "new_salary", "salary_increment", "increment_percentage"}

\* the result says of itself that it is the degraded fallback
Flagged(result) == \E field \in DOMAIN result : field \notin RecommendationFields

\* C17: every result of the step recommendation either has a new salary
\* strictly greater than the current salary, or is the degraded fallback (no
\* step of the target grade pays more): then it is the maximum step of the
\* target grade with that step's salary, and an explicit flag tells it from
\* a normal recommendation.
RecommendationIsIncrementOrFlagged ==
    (last.op = "get_promotion_step_recommendation" /\ last.ret.can_calculate)
        => \/ last.ret.new_salary > last.ret.current_salary
           \/ /\ BetterSteps(last.new_grade, last.ret.current_salary) = {}
              /\ last.ret.recommended_step = get_max_step_for_grade(last.new_grade)
              /\ last.ret.new_salary
                     = ActiveSalary(last.new_grade, last.ret.recommended_step)
              /\ Flagged(last.ret)

----------------------------------------------------------------------------
(* Step service specification: apply_promotion and increment_user_step on   *)
(* one employee, the database being the employee row and the step log      *)

\* the longest step log
MaxLog == 2

\* the outcomes of db.session.commit(); a failed commit persists nothing and
\* the session is rolled back by the caller or at the end of the request
CommitOutcomes == {"none", "commit_failed"}

\* a promotion that keeps the count of failed attempts; the count after a
\* promotion tells the two apart
PromotedUserKeepingFailures(user, new_grade, new_step, effective_date) ==
    [user EXCEPT
        !.conraiss_grade = new_grade,
        !.conraiss_step = new_step,
        !.date_of_last_promotion = effective_date,
        !.last_rrr_date = effective_date,
        !.last_rrr_type = "Promotion"]

\* the employee as apply_promotion leaves it
PromotedUser(user, new_grade, new_step, effective_date) ==
    [user EXCEPT
        !.conraiss_grade = new_grade,
        !.conraiss_step = new_step,
        !.date_of_last_promotion = effective_date,
        !.last_rrr_date = effective_date,
        !.last_rrr_type = "Promotion",
        !.failed_promotion_attempts = 0]

\* apply_promotion, then the rollback of apply_user_promotion if the commit
\* raised; effective_date NoDate is None; a log row without previous_step
\* violates its NOT NULL column
ApplyPromotion(uid, new_grade, new_step, effective_date, processed_by, outcome) ==
    LET user == users[uid]
        effective == IF effective_date = NoDate THEN today ELSE effective_date
        old_step == user.conraiss_step
        entry == StepIncrementLog(uid, old_step, new_step, effective,
                                  "Promotion", processed_by)
        err == IF old_step = 0 THEN "integrity_error" ELSE outcome
    IN /\ Len(log) < MaxLog
       /\ IF err = "none"
          THEN /\ users' = [users EXCEPT ![uid] =
                               PromotedUser(user, new_grade, new_step, effective)]
               /\ log' = Append(log, entry)
          ELSE UNCHANGED <<users, log>>
       /\ last' = [op |-> "apply_promotion", user_id |-> uid, new_grade |-> new_grade,
                   new_step |-> new_step, effective_date |-> effective,
                   processed_by |-> processed_by, err |-> err]
       /\ UNCHANGED <<vacancies, salary, recs, today, sessions>>

\* a test that lets the last step through; an increment at the last step
\* tells the two apart
AboveMaxStep(user) == user.conraiss_step > get_max_step_for_grade(user.conraiss_grade)

\* the test of increment_user_step for the last step of the grade
AtMaxStep(user) == user.conraiss_step >= get_max_step_for_grade(user.conraiss_grade)

\* increment_user_step; ret is TRUE for a returned log entry, FALSE for None
IncrementUserStep(uid, processed_by, outcome) ==
    LET user == users[uid]
        old_step == user.conraiss_step
        entry == StepIncrementLog(uid, old_step, old_step + 1, today,
                                  "Annual", processed_by)
        skipped == user.conraiss_grade = 0 \/ user.conraiss_step = 0 \/ AtMaxStep(user)
        err == IF skipped THEN "none" ELSE outcome
    IN /\ Len(log) < MaxLog
       /\ IF ~skipped /\ err = "none"
          THEN /\ users' = [users EXCEPT ![uid].conraiss_step = old_step + 1]
               /\ log' = Append(log, entry)
          ELSE UNCHANGED <<users, log>>
       /\ last' = [op |-> "increment_user_step", user_id |-> uid,
                   processed_by |-> processed_by, err |-> err,
                   ret |-> ~skipped /\ err = "none"]
       /\ UNCHANGED <<vacancies, salary, recs, today, sessions>>

\* grades of two step ranges and a missing grade; steps at both ends of the
\* ranges, one above them and a missing step
ServiceGrades == {0, 7, 13}
ServiceSteps == {0, 1, 8, 9, 14, 15, 16}

InitService ==
    /\ today = 200
    /\ \E grade \in ServiceGrades, step \in ServiceSteps, failed \in 0 .. MaxFailed,
          last_promotion \in {NoDate, 100} :
          users = << [User(grade, step, 0, 0) EXCEPT
                         !.failed_promotion_attempts = failed,
                         !.date_of_last_promotion = last_promotion] >>
    /\ vacancies = [k \in {} |-> NoRow]
    /\ salary = SalaryScale
    /\ recs = <<>>
    /\ sessions = <<>>
    /\ log = <<>>
    /\ last = NoLast

NextService ==
    \/ \E uid \in DOMAIN users, new_grade \in {8, 14}, effective_date \in {NoDate, 150},
          processed_by \in Admins, outcome \in CommitOutcomes :
          \E new_step \in {1, get_max_step_for_grade(new_grade)} :
             ApplyPromotion(uid, new_grade, new_step, effective_date, processed_by, outcome)
    \/ \E uid \in DOMAIN users, processed_by \in {0} \cup Admins,
          outcome \in CommitOutcomes :
          IncrementUserStep(uid, processed_by, outcome)

SpecService == InitService /\ [][NextService]_vars

\* C18: apply_promotion sets the employee's grade, step and date of last
\* promotion to the given values, resets the failed attempts to 0 and appends
\* exactly one log entry of type Promotion from the step before the call to
\* the new step; when it fails, neither the employee nor the log changes.
PromotionIsAppliedAtomically ==
    [][last'.op = "apply_promotion"
          => LET before == users[last'.user_id]
                 after == users'[last'.user_id]
             IN IF last'.err = "none"
                THEN /\ after.conraiss_grade = last'.new_grade
                     /\ after.conraiss_step = last'.new_step
                     /\ after.date_of_last_promotion = last'.effective_date
                     /\ after.failed_promotion_attempts = 0
                     /\ Len(log') = Len(log) + 1
                     /\ SubSeq(log', 1, Len(log)) = log
                     /\ log'[Len(log')].increment_type = "Promotion"
                     /\ log'[Len(log')].user_id = last'.user_id
                     /\ log'[Len(log')].previous_step = before.conraiss_step
                     /\ log'[Len(log')].new_step = last'.new_step
                ELSE users' = users /\ log' = log]_vars

\* an employee has been promoted from step 8 with the failed attempts at 0,
\* and a failed commit has then left the employee and the log as they were
PromotedAfterFailures ==
    /\ Len(log) = 1
    /\ log[1].increment_type = "Promotion"
    /\ log[1].previous_step = 8
    /\ users[1].conraiss_grade = 14
    /\ users[1].failed_promotion_attempts = 0
    /\ last.op = "apply_promotion"
    /\ last.err = "commit_failed"

\* C19: increment_user_step on an employee whose step is below the maximum
\* step of the grade raises the step by exactly 1, leaves every other field
\* of the employee unchanged and appends one log entry of type Annual from
\* the old step to the old step + 1; on an employee at or above the maximum
\* step it changes nothing, appends nothing and returns nothing, without an
\* error; so no increment takes a step from at most the maximum to above it.
IncrementStaysWithinGrade ==
    [][last'.op = "increment_user_step"
          => LET before == users[last'.user_id]
                 after == users'[last'.user_id]
                 max_step == get_max_step_for_grade(before.conraiss_grade)
                 has_step == before.conraiss_grade # 0 /\ before.conraiss_step # 0
             IN /\ (has_step /\ before.conraiss_step < max_step /\ last'.err = "none")
                      => /\ last'.ret
                         /\ after = [before EXCEPT !.conraiss_step = before.conraiss_step + 1]
                         /\ after.conraiss_grade = before.conraiss_grade
                         /\ after.failed_promotion_attempts = before.failed_promotion_attempts
                         /\ after.date_of_last_promotion = before.date_of_last_promotion
                         /\ Len(log') = Len(log) + 1
                         /\ SubSeq(log', 1, Len(log)) = log
                         /\ log'[Len(log')].increment_type = "Annual"
                         /\ log'[Len(log')].user_id = last'.user_id
                         /\ log'[Len(log')].previous_step = before.conraiss_step
                         /\ log'[Len(log')].new_step = before.conraiss_step + 1
                /\ (has_step /\ before.conraiss_step >= max_step)
                      => /\ ~last'.ret
                         /\ last'.err = "none"
                         /\ users' = users
                         /\ log' = log
                /\ (has_step /\ before.conraiss_step <= max_step)
                      => after.conraiss_step <= max_step]_vars

\* an increment has taken the employee to the last step of grade 7, and the
\* next increment has done nothing
IncrementRefusedAtLastStep ==
    /\ last.op = "increment_user_step"
    /\ ~last.ret
    /\ users[1].conraiss_grade = 7
    /\ users[1].conraiss_step = 15
    /\ Len(log) = 1
    /\ log[1].increment_type = "Annual"
    /\ log[1].previous_step = 14

----------------------------------------------------------------------------
(* Grades specification: allocate_rrr_for_all_grades over the vacancy rows *)
(* of two grades and two cycles                                            *)

GradeCycles == {"2025", "2026"}

\* the row of a grade and cycle: none, inactive, or active with its own slots
GradeRows ==
    {NoRow, Vacancy(1, 1, 0, FALSE), Vacancy(1, 0, 1, TRUE), Vacancy(0, 2, 0, TRUE)}

\* the row of a grade in the second cycle: none, or active with other slots
OtherCycleRows == {NoRow, Vacancy(0, 2, 0, TRUE)}

InitGrades ==
    /\ InitPool(StaffProfiles)
    /\ vacancies \in {table \in [LedgerGrades \X GradeCycles -> GradeRows] :
                         \A g \in LedgerGrades : table[<<g, "2026">>] \in OtherCycleRows}

\* the allocation changes no row, so one call per behaviour covers it
NextGrades ==
    /\ last = NoLast
    /\ \E cycle \in GradeCycles, ord \in Perms(DOMAIN users) : AllocateAll(cycle, ord)

SpecGrades == InitGrades /\ [][NextGrades]_vars

\* the active employees of the grade
GradePool(grade) ==
    {u \in DOMAIN users : users[u].conraiss_grade = grade /\ users[u].is_active}

\* C20: allocate_rrr_for_all_grades(cycle) returns a map with exactly one
\* entry for each active vacancy row of that cycle, none for inactive rows or
\* rows of other cycles, and the empty map without an active row; the entry
\* of a grade is the allocation of that grade alone: its candidates are the
\* active employees of the grade, ranked by their scores, and its tiers are
\* cut from that ranking with the slot counts of the grade's own row.
AllGradesMapIsPerActiveRow ==
    last.op = "allocate_rrr_for_all_grades"
        => LET active == {g \in LedgerGrades :
                             /\ vacancies[<<g, last.cycle>>] # NoRow
                             /\ vacancies[<<g, last.cycle>>].is_active}
           IN /\ DOMAIN last.ret = active
              /\ \A g \in active :
                    LET a == last.ret[g]
                        v == vacancies[<<g, last.cycle>>]
                        N == Cardinality(GradePool(g))
                        np == Min(v.promotion_vacancies, N)
                        nr == Min(v.recognition_slots, N - np)
                        nw == Min(v.reward_slots, N - np - nr)
                    IN /\ a.grade = g
                       /\ a.total_candidates = N
                       /\ N = 0 => a.promoted = <<>> /\ a.recognized = <<>> /\ a.rewarded = <<>>
                       /\ N > 0 =>
                             /\ Len(a.all_candidates) = N
                             /\ UserIds(a.all_candidates) = GradePool(g)
                             /\ \A i, j \in 1 .. N :
                                   i < j => \/ a.all_candidates[i].combined_score
                                                > a.all_candidates[j].combined_score
                                            \/ /\ a.all_candidates[i].combined_score
                                                    = a.all_candidates[j].combined_score
                                               /\ a.all_candidates[i].seniority_score
                                                    >= a.all_candidates[j].seniority_score
                             /\ a.promotion_vacancies = v.promotion_vacancies
                             /\ a.recognition_slots = v.recognition_slots
                             /\ a.reward_slots = v.reward_slots
                             /\ a.promoted = SubSeq(a.all_candidates, 1, np)
                             /\ a.recognized = SubSeq(a.all_candidates, np + 1, np + nr)
                             /\ a.rewarded = SubSeq(a.all_candidates, np + nr + 1, np + nr + nw)

\* grade 7 alone has an entry, with its two candidates and its own slots,
\* while grade 8 has a candidate, an inactive row in this cycle and an active
\* row with other slot counts in the other cycle
OnlyActiveRowOfCycleAllocated ==
    /\ last.op = "allocate_rrr_for_all_grades"
    /\ last.cycle = "2025"
    /\ DOMAIN last.ret = {7}
    /\ last.ret[7].total_candidates = 2
    /\ Len(last.ret[7].promoted) = 1
    /\ Len(last.ret[7].rewarded) = 1
    /\ GradePool(8) # {}
    /\ vacancies[<<8, "2025">>] = Vacancy(1, 1, 0, FALSE)
    /\ vacancies[<<8, "2026">>] = Vacancy(0, 2, 0, TRUE)

----------------------------------------------------------------------------
(* Concurrent specification: two requests on one employee, each in its own *)
(* database session.  A session loads the rows it works on, changes them   *)
(* in memory and commits; nothing in the code locks a row or checks a      *)
(* version, so the load and the commit are separate steps.                 *)

\* the requests in flight at once
NumSessions == 2

\* the rows a session loads; the tables as the queries of the request see them
Loaded(request) == [users |-> users, recs |-> recs]

\* one ceiling for every grade; an increment at step 11 of grade 12 tells
\* the two apart
BatchMaxStepFlat(grade) == 15

\* the maximum step as process_annual_step_increment works it out itself
BatchMaxStep(grade) ==
    IF 2 <= grade /\ grade <= 9 THEN 15
    ELSE IF 10 <= grade /\ grade <= 12 THEN 11
    ELSE IF 13 <= grade /\ grade <= 15 THEN 9
    ELSE 15

\* the annual batch on the loaded employees from user id `from` on: the
\* employees after the increments and the log entries added, in user order
RECURSIVE BatchIncrements(_, _, _)
BatchIncrements(staff, from, day) ==
    IF from > Len(staff) THEN [users |-> staff, added |-> <<>>]
    ELSE LET user == staff[from]
             max_step == BatchMaxStep(user.conraiss_grade)
             skipped == \/ ~user.is_active
                        \/ user.conraiss_grade = 0 \/ user.conraiss_step = 0
                        \/ user.conraiss_step >= max_step
             rest == BatchIncrements(
                         IF skipped THEN staff
                         ELSE [staff EXCEPT ![from].conraiss_step = @ + 1],
                         from + 1, day)
         IN IF skipped THEN rest
            ELSE [users |-> rest.users,
                  added |-> <<StepIncrementLog(from, user.conraiss_step,
                                               user.conraiss_step + 1, day, "Annual", 0)>>
                            \o rest.added]

\* the work of a request on the rows its session loaded: the rows as the
\* session holds them before the commit, and the log entries it adds
Work(request, loaded, day) ==
    IF request.kind = "approve"
    THEN LET recommendation == loaded.recs[request.id]
         IN [recs |-> [loaded.recs EXCEPT ![request.id] =
                          [@ EXCEPT !.status = "Approved",
                                    !.approved_by = request.by,
                                    !.approval_date = day]],
             users |-> IF CommitsPromotion(recommendation)
                       THEN [loaded.users EXCEPT ![recommendation.user_id] =
                                ApprovedUser(@, recommendation, day)]
                       ELSE loaded.users,
             added |-> <<>>]
    ELSE IF request.kind = "apply_promotion"
    THEN LET user == loaded.users[request.user_id]
         IN [recs |-> loaded.recs,
             users |-> [loaded.users EXCEPT ![request.user_id] =
                           PromotedUser(user, request.new_grade, request.new_step, day)],
             added |-> <<StepIncrementLog(request.user_id, user.conraiss_step,
                                          request.new_step, day, "Promotion", request.by)>>]
    ELSE IF request.kind = "increment_user_step"
    THEN LET user == loaded.users[request.user_id]
         IN IF user.conraiss_grade = 0 \/ user.conraiss_step = 0 \/ AtMaxStep(user)
            THEN [recs |-> loaded.recs, users |-> loaded.users, added |-> <<>>]
            ELSE [recs |-> loaded.recs,
                  users |-> [loaded.users EXCEPT ![request.user_id].conraiss_step = @ + 1],
                  added |-> <<StepIncrementLog(request.user_id, user.conraiss_step,
                                               user.conraiss_step + 1, day, "Annual",
                                               request.by)>>]
    ELSE LET batch == BatchIncrements(loaded.users, 1, day)
         IN [recs |-> loaded.recs, users |-> batch.users, added |-> batch.added]

\* the UPDATE of a flush: the columns the session changed since it loaded
\* the row are written, the other columns of the row stay as they are
Flushed(row, loaded, changed) ==
    [column \in DOMAIN row |->
        IF changed[column] # loaded[column] THEN changed[column] ELSE row[column]]

\* the tables after the commit of a session
Committed(table, loaded, changed) ==
    [i \in DOMAIN table |-> Flushed(table[i], loaded[i], changed[i])]

\* the session loads its rows
Load(s) ==
    /\ sessions[s].pc = "ready"
    /\ sessions' = [sessions EXCEPT ![s].pc = "loaded",
                                    ![s].loaded = Loaded(sessions[s].request)]
    /\ UNCHANGED <<users, vacancies, salary, recs, log, today, last>>

\* the session works on what it loaded and commits
Commit(s) ==
    /\ sessions[s].pc = "loaded"
    /\ LET work == Work(sessions[s].request, sessions[s].loaded, today)
       IN /\ users' = Committed(users, sessions[s].loaded.users, work.users)
          /\ recs' = Committed(recs, sessions[s].loaded.recs, work.recs)
          /\ log' = log \o work.added
    /\ sessions' = [sessions EXCEPT ![s].pc = "done"]
    /\ UNCHANGED <<vacancies, salary, today, last>>

\* a promotion recommendation of employee 1 with the step filled in
PromotionOf(promotion_cycle, step) ==
    [RRRRecommendation(1, promotion_cycle, 7) EXCEPT
        !.is_promoted = TRUE, !.promoted_to_grade = 8, !.promoted_to_step = step,
        !.rank_in_grade = 1, !.total_candidates_in_grade = 1]

\* the requests that change the grade or the step of employee 1
Requests ==
    << [kind |-> "approve", id |-> 1, by |-> 9],
       [kind |-> "approve", id |-> 2, by |-> 9],
       [kind |-> "apply_promotion", user_id |-> 1, new_grade |-> 9, new_step |-> 2, by |-> 9],
       [kind |-> "increment_user_step", user_id |-> 1, by |-> 9],
       [kind |-> "annual_batch"] >>

\* last keeps the tables on which the requests arrived
InitConcurrent ==
    /\ today = 200
    /\ \E step \in {8, 14, 15} : users = << User(7, step, 8000, 7000) >>
    /\ recs = << PromotionOf("2025", 3), PromotionOf("2026", 5) >>
    /\ log = <<>>
    /\ vacancies = [k \in {} |-> NoRow]
    /\ salary = SalaryScale
    /\ \E f \in [1 .. NumSessions -> DOMAIN Requests] :
          /\ \A i, j \in 1 .. NumSessions : i < j => f[i] <= f[j]
          /\ sessions = [s \in 1 .. NumSessions |->
                            [request |-> Requests[f[s]], pc |-> "ready", loaded |-> NoRow]]
    /\ last = [op |-> "concurrent_requests", users |-> users, recs |-> recs]

NextConcurrent ==
    \/ \E s \in DOMAIN sessions : Load(s)
    \/ \E s \in DOMAIN sessions : Commit(s)

SpecConcurrent == InitConcurrent /\ [][NextConcurrent]_vars

\* the tables after the request has run alone on the tables
Alone(request, tables) ==
    LET loaded == [users |-> tables.users, recs |-> tables.recs]
        work == Work(request, loaded, today)
    IN [users |-> work.users, recs |-> work.recs, log |-> tables.log \o work.added]

\* the tables after the requests have run one after the other in the order
RECURSIVE Serial(_, _)
Serial(order, tables) ==
    IF order = <<>> THEN tables
    ELSE Serial(Tail(order), Alone(sessions[Head(order)].request, tables))

\* C21: when two requests that change the grade or step of one employee run
\* concurrently, the employee and the step log at the end are those of the
\* requests run one after the other in some order.
ConcurrentRunsAreSerializable ==
    (\A s \in DOMAIN sessions : sessions[s].pc = "done")
        => \E order \in Perms(DOMAIN sessions) :
              LET serial == Serial(order, [users |-> last.users, recs |-> last.recs,
                                           log |-> <<>>])
              IN users = serial.users /\ log = serial.log

----------------------------------------------------------------------------
(* Order specification: the seniority order of two peers over the values   *)
(* their four sort keys can hold                                            *)

\* file_no is a free string column: no file number (0), a file number
\* before 'ZZZZ' in the lexical order and one after it (such as 'a17')
FileNumbers == {0, 1, ZZZZ + 1}

\* a date column: NULL, an earlier and a later day
KeyDates == {NoDate, 1, 2}

InitOrder ==
    /\ \E step_a, step_b \in {9, 10}, confirmed_a, confirmed_b \in KeyDates,
          born_a, born_b \in KeyDates, file_a, file_b \in FileNumbers :
          users = << [User(7, step_a, 8000, 7000) EXCEPT
                         !.confirmation_date = confirmed_a,
                         !.date_of_birth = born_a, !.file_no = file_a],
                     [User(7, step_b, 8000, 7000) EXCEPT
                         !.confirmation_date = confirmed_b,
                         !.date_of_birth = born_b, !.file_no = file_b] >>
    /\ vacancies = [k \in {} |-> NoRow]
    /\ salary = SalaryScale
    /\ recs = <<>>
    /\ sessions = <<>>
    /\ log = <<>>
    /\ today = 0
    /\ last = NoLast

SpecOrder == InitOrder /\ [][NextSeniority]_vars

\* a is before b on a key that sorts ascending with missing values last:
\* both are real and a's is smaller, or a's is real and b's is missing
KeyBefore(a, b, missing) == a # missing /\ (b = missing \/ a < b)

\* peer a is before peer b in the seniority order as worded
SeniorBefore(a, b) ==
    \/ a.conraiss_step > b.conraiss_step
    \/ /\ a.conraiss_step = b.conraiss_step
       /\ \/ KeyBefore(a.confirmation_date, b.confirmation_date, NoDate)
          \/ /\ a.confirmation_date = b.confirmation_date
             /\ \/ KeyBefore(a.date_of_birth, b.date_of_birth, NoDate)
                \/ /\ a.date_of_birth = b.date_of_birth
                   /\ KeyBefore(a.file_no, b.file_no, 0)

\* C22: of two peers, the one with the higher step is the more senior; with
\* equal steps the one with the earlier confirmation date; then the earlier
\* date of birth; then the lexically smaller file number; and a missing
\* confirmation date, date of birth or file number sorts after every real
\* value of that key.  The more senior of two peers scores 100, the other 0.
SeniorityOrderAsWorded ==
    (last.op = "calculate_seniority_score" /\ Len(last.peers) = 2
        /\ last.uid \in Range(last.peers))
        => \A other \in Range(last.peers) \ {last.uid} :
              /\ SeniorBefore(users[last.uid], users[other]) => last.ret = 10000
              /\ SeniorBefore(users[other], users[last.uid]) => last.ret = 0

----------------------------------------------------------------------------
(* Ceiling specification: the three step changes that apply a maximum step *)
(* on one employee of every grade                                           *)

\* process_annual_step_increment: every active employee in one session and
\* one commit; a failed commit is rolled back
AnnualBatch(outcome) ==
    LET batch == BatchIncrements(users, 1, today)
    IN /\ Len(log) + Len(batch.added) <= MaxLog
       /\ IF outcome = "none"
          THEN users' = batch.users /\ log' = log \o batch.added
          ELSE UNCHANGED <<users, log>>
       /\ last' = [op |-> "process_annual_step_increment",
                   status |-> IF outcome = "none" THEN "success" ELSE "error",
                   incremented |-> IF outcome = "none" THEN Len(batch.added) ELSE 0]
       /\ UNCHANGED <<vacancies, salary, recs, today, sessions>>

\* the apply-promotion endpoint for an existing employee: the step range of
\* the new grade is validated, then apply_promotion runs
ApplyUserPromotion(uid, new_grade, new_step, current_user_id, outcome) ==
    LET user == users[uid]
        max_step == get_max_step_for_grade(new_grade)
        status == IF new_step < 1 \/ new_step > max_step THEN 400
                  ELSE IF user.conraiss_step = 0 \/ outcome # "none" THEN 500
                  ELSE 200
    IN /\ Len(log) < MaxLog
       /\ IF status = 200
          THEN /\ users' = [users EXCEPT ![uid] =
                               PromotedUser(user, new_grade, new_step, today)]
               /\ log' = Append(log, StepIncrementLog(uid, user.conraiss_step, new_step,
                                                      today, "Promotion", current_user_id))
          ELSE UNCHANGED <<users, log>>
       /\ last' = [op |-> "apply_user_promotion", user_id |-> uid,
                   new_grade |-> new_grade, new_step |-> new_step, status |-> status]
       /\ UNCHANGED <<vacancies, salary, recs, today, sessions>>

\* steps at and next to the three ceilings
CeilingSteps == {8, 9, 10, 11, 12, 14, 15, 16}

InitCeiling ==
    /\ today = 200
    /\ \E grade \in 1 .. 16, step \in CeilingSteps \ {16} :
          users = << User(grade, step, 0, 0) >>
    /\ vacancies = [k \in {} |-> NoRow]
    /\ salary = SalaryScale
    /\ recs = <<>>
    /\ sessions = <<>>
    /\ log = <<>>
    /\ last = NoLast

NextCeiling ==
    \/ \E outcome \in CommitOutcomes : AnnualBatch(outcome)
    \/ \E uid \in DOMAIN users, processed_by \in Admins, outcome \in CommitOutcomes :
          IncrementUserStep(uid, processed_by, outcome)
    \/ \E uid \in DOMAIN users, new_grade \in {10, 13, 16},
          new_step \in {0, 1, 9, 10, 11, 12, 15, 16}, current_user_id \in Admins :
          ApplyUserPromotion(uid, new_grade, new_step, current_user_id, "none")

SpecCeiling == InitCeiling /\ [][NextCeiling]_vars

\* the maximum step of the grades 2 .. 15 as the table words it
MaxStepTable(grade) ==
    IF grade \in 2 .. 9 THEN 15 ELSE IF grade \in 10 .. 12 THEN 11 ELSE 9

\* C23: the maximum step is 15 for grades 2..9, 11 for grades 10..12 and 9
\* for grades 13..15, and for every grade the ceiling applied by
\* increment_user_step, by the annual batch and by the step validation of
\* the apply-promotion endpoint is get_max_step_for_grade(grade).
OneCeilingGatesEveryStepChange ==
    [][/\ \A grade \in 2 .. 15 : get_max_step_for_grade(grade) = MaxStepTable(grade)
       /\ (/\ last'.op = "process_annual_step_increment"
           /\ last'.status = "success"
           /\ users[1].conraiss_grade # 0 /\ users[1].conraiss_step # 0)
             => /\ users[1].conraiss_step < get_max_step_for_grade(users[1].conraiss_grade)
                      => users'[1].conraiss_step = users[1].conraiss_step + 1
                /\ users[1].conraiss_step >= get_max_step_for_grade(users[1].conraiss_grade)
                      => users' = users /\ log' = log
       /\ (/\ last'.op = "increment_user_step"
           /\ last'.err = "none"
           /\ users[1].conraiss_grade # 0 /\ users[1].conraiss_step # 0)
             => /\ users[1].conraiss_step < get_max_step_for_grade(users[1].conraiss_grade)
                      => users'[1].conraiss_step = users[1].conraiss_step + 1
                /\ users[1].conraiss_step >= get_max_step_for_grade(users[1].conraiss_grade)
                      => users' = users /\ log' = log
       /\ last'.op = "apply_user_promotion"
             => (last'.status = 400
                    <=> ~(/\ 1 <= last'.new_step
                          /\ last'.new_step <= get_max_step_for_grade(last'.new_grade)))]_vars

\* the annual batch has taken an employee of grade 12 to step 11, the
\* maximum of the grade, and a second run has left the employee there
BatchStoppedAtCeiling ==
    /\ last.op = "process_annual_step_increment"
    /\ last.status = "success"
    /\ last.incremented = 0
    /\ users[1].conraiss_grade = 12
    /\ users[1].conraiss_step = 11
    /\ Len(log) = 1
    /\ log[1].increment_type = "Annual"
    /\ log[1].processed_by = 0
    /\ log[1].new_step = 11

----------------------------------------------------------------------------
(* Materialization specification: the allocate_rrr endpoint over pools of  *)
(* two grades and vacancy rows with every tier                             *)

\* the row of a grade: none, or active with slots for one, two or three tiers
MaterializeRows ==
    {NoRow, Vacancy(1, 0, 1, TRUE), Vacancy(0, 2, 0, TRUE), Vacancy(1, 1, 1, TRUE)}

InitMaterialize ==
    /\ InitPool(StaffProfiles)
    /\ vacancies \in {table \in [LedgerGrades \X Cycles -> MaterializeRows] :
                         \A cycle \in Cycles :
                            /\ table[<<7, cycle>>] # NoRow
                            /\ table[<<8, cycle>>] \in {NoRow, Vacancy(1, 0, 1, TRUE)}}

NextMaterialize ==
    \/ \E cycle \in Cycles, ord \in Perms(DOMAIN users), admin \in Admins :
          AllocateRRR(cycle, ord, admin)
    \/ \E recommendation_id \in 1 .. MaxPool, step \in PromotionSteps :
          SetPromotedToStep(recommendation_id, step)

SpecMaterialize == InitMaterialize /\ [][NextMaterialize]_vars

\* the rows of the employee and the cycle in a recommendation table
RowsOf(rs, user_id, promotion_cycle) ==
    {i \in DOMAIN rs : rs[i].user_id = user_id /\ rs[i].promotion_cycle = promotion_cycle}

----------------------------------------------------------------------------
(* Retry of the step increments (specification SpecCeiling) *)

\* C25: the annual batch and increment_user_step are safe to retry: the same
\* job executed a second time leaves every employee's step and the step log
\* exactly as they were after the first execution.
RetryIsIdempotent ==
    [][(\/ /\ last.op = "process_annual_step_increment"
           /\ last'.op = "process_annual_step_increment"
        \/ /\ last.op = "increment_user_step"
           /\ last'.op = "increment_user_step"
           /\ last'.user_id = last.user_id
           /\ last'.processed_by = last.processed_by)
          => users' = users /\ log' = log]_vars

----------------------------------------------------------------------------
(* Feedback specification: one employee with a Pending promotion           *)
(* recommendation; rejections, approvals, applied promotions and           *)
(* eligibility evaluations in any order                                    *)

\* the grades of the three eligibility bands
FeedbackGrades == {5, 6, 14}

\* days since the last promotion at the start: just over 1, 2, 3 and 4 years
FeedbackDays == {366, 731, 1096, 1461}

InitFeedback ==
    /\ today = 1461
    /\ \E grade \in FeedbackGrades, days \in FeedbackDays, step \in {0} \cup PromotionSteps :
          /\ users = << [conraiss_grade |-> grade, conraiss_step |-> 2,
                         failed_promotion_attempts |-> 0,
                         date_of_last_promotion |-> today - days,
                         date_of_first_appointment |-> 0,
                         last_rrr_date |-> NoDate, last_rrr_type |-> "",
                         is_active |-> TRUE] >>
          /\ recs = << [RRRRecommendation(1, "2025", grade) EXCEPT
                           !.is_promoted = TRUE, !.promoted_to_grade = grade + 1,
                           !.promoted_to_step = step,
                           !.rank_in_grade = 1, !.total_candidates_in_grade = 1] >>
    /\ vacancies = [k \in {} |-> NoRow]
    /\ salary = SalaryScale
    /\ sessions = <<>>
    /\ log = <<>>
    /\ last = NoLast

NextFeedback ==
    \/ \E reason \in Reasons : Reject(1, reason)
    \/ \E admin \in Admins : Approve(1, admin)
    \/ \E outcome \in CommitOutcomes :
          ApplyPromotion(1, users[1].conraiss_grade + 1, 1, NoDate, 9, outcome)
    \/ Evaluate(1, 0, FALSE, "")

SpecFeedback == InitFeedback /\ [][NextFeedback]_vars

\* the step commits a promotion of the employee
PromotionCommitted ==
    \/ last'.op = "approve" /\ last'.err = "none" /\ CommitsPromotion(recs[last'.id])
    \/ last'.op = "apply_promotion" /\ last'.err = "none"

\* the years in grade the band of the grade requires
BandYears(grade) ==
    IF grade \in 2 .. 5 THEN 2 ELSE IF grade \in 6 .. 12 THEN 3 ELSE 4

\* C26: the rejection of a Pending promotion recommendation of an employee
\* at grade 2..14 leaves the employee with a failed attempt; while the
\* employee has one, every eligibility evaluation requires 1 year in grade
\* instead of the band's 2, 3 or 4 years, and no step but a committed
\* promotion (approval or apply_promotion) ends that; a committed promotion
\* sets the failed attempts to 0 and the date of the last promotion, and the
\* evaluations after it require the band's years again.
RejectionRelaxesUntilPromotion ==
    [][LET before == users[1]
           after == users'[1]
           days == today - before.date_of_last_promotion
       IN /\ (/\ last'.op = "reject" /\ last'.err = "none"
              /\ recs[last'.id].status = "Pending" /\ recs[last'.id].is_promoted
              /\ before.conraiss_grade \in 2 .. 14)
                => after.failed_promotion_attempts >= 1
          /\ (before.failed_promotion_attempts >= 1 /\ ~PromotionCommitted)
                => after.failed_promotion_attempts >= 1
          /\ PromotionCommitted
                => /\ after.failed_promotion_attempts = 0
                   /\ after.date_of_last_promotion = today
          /\ (last'.op = "is_eligible_for_promotion" /\ before.conraiss_grade \in 2 .. 14)
                => LET years == IF before.failed_promotion_attempts >= 1 THEN 1
                                ELSE BandYears(before.conraiss_grade)
                   IN /\ (last'.ret.reason = "insufficient_time") = (4 * days < 1461 * years)
                      /\ last'.ret.reason \in {"insufficient_time", "eligible"}
                      /\ last'.ret.required_years = years]_vars

\* an employee of grade 6 with two years in grade and a rejected promotion
\* has been found eligible, three years being the requirement of the band
EligibleByRelaxedRule ==
    /\ last.op = "is_eligible_for_promotion"
    /\ last.ret.eligible
    /\ last.ret.required_years = 1
    /\ last.ret.standard_cycle = 3
    /\ last.ret.failed_attempts >= 1
    /\ recs[1].status = "Rejected"
    /\ users[1].conraiss_grade = 6
    /\ today - users[1].date_of_last_promotion = 731

----------------------------------------------------------------------------
(* Engine specification: every operation that changes an employee's grade *)
(* or step, on one employee that starts with a valid grade and step and a  *)
(* vacancy row for the employee's grade                                     *)

\* valid (grade, step) pairs of the three step ladders
EngineStarts == {<<7, 14>>, <<12, 10>>, <<15, 8>>}

InitEngine ==
    /\ today = 200
    /\ \E start \in EngineStarts :
          /\ users = << User(start[1], start[2], 8000, 7000) >>
          /\ vacancies = [k \in {start[1]} \X Cycles |-> Vacancy(1, 0, 0, TRUE)]
    /\ salary = SalaryScale
    /\ recs = <<>>
    /\ sessions = <<>>
    /\ log = <<>>
    /\ last = NoLast

NextEngine ==
    \/ \E cycle \in Cycles, ord \in Perms(DOMAIN users), admin \in Admins :
          AllocateRRR(cycle, ord, admin)
    \/ \E recommendation_id \in DOMAIN users, step \in PromotionSteps :
          SetPromotedToStep(recommendation_id, step)
    \/ \E recommendation_id \in DOMAIN users, admin \in Admins :
          Approve(recommendation_id, admin)
    \/ \E recommendation_id \in DOMAIN users, reason \in Reasons :
          Reject(recommendation_id, reason)
    \/ \E uid \in DOMAIN users, new_grade \in {8, 16}, new_step \in {0, 1, 15},
          current_user_id \in Admins :
          ApplyUserPromotion(uid, new_grade, new_step, current_user_id, "none")
    \/ \E uid \in DOMAIN users, processed_by \in Admins :
          IncrementUserStep(uid, processed_by, "none")
    \/ AnnualBatch("none")

SpecEngine == InitEngine /\ [][NextEngine]_vars

\* C27: every employee with grade and step set has a grade in 2..15 and a
\* step in 1..max_step(grade), whatever allocation runs, approvals,
\* rejections, applied promotions, step increments and annual batches have
\* run; no employee is above grade 15.
EmployeeStaysValid ==
    \A u \in DOMAIN users :
        (users[u].conraiss_grade # 0 /\ users[u].conraiss_step # 0)
            => /\ users[u].conraiss_grade \in 2 .. 15
               /\ users[u].conraiss_step
                     \in 1 .. get_max_step_for_grade(users[u].conraiss_grade)

\* the log entries of the employee, in the order they were appended
EntriesOf(entries, user_id) ==
    LET Mine(entry) == entry.user_id = user_id IN SelectSeq(entries, Mine)

\* C28: no operation modifies or removes a log entry, and after every step,
\* for each employee with a log entry, each entry that is not a promotion has
\* the preceding entry's new_step as its previous_step and the new_step of the
\* latest entry is the employee's current step.
LogStaysConsistent ==
    [][/\ Len(log') >= Len(log)
       /\ SubSeq(log', 1, Len(log)) = log
       /\ \A u \in DOMAIN users' :
             LET entries == EntriesOf(log', u)
             IN entries # <<>>
                   => /\ \A i \in 2 .. Len(entries) :
                            \/ entries[i].increment_type = "Promotion"
                            \/ entries[i].previous_step = entries[i - 1].new_step
                      /\ entries[Len(entries)].new_step = users'[u].conraiss_step]_vars

\* C29: whenever the allocation of a cycle returns a result map (some active
\* vacancy row exists, with or without employees at its grade), the
\* materialization completes without raising and every ranked candidate of
\* every grade of the map has exactly one stored recommendation of the cycle.
GenerationCompletesForEveryMap ==
    [][(last'.op = "allocate_rrr" /\ last'.err # "no_vacancies")
          => /\ last'.err = "none"
             /\ \E cycle \in Cycles :
                   /\ ActiveVacancyGrades(cycle) # {}
                   /\ \A g \in ActiveVacancyGrades(cycle) :
                         \A u \in GradePool(g) :
                            Cardinality(RowsOf(recs', u, cycle)) = 1]_vars

----------------------------------------------------------------------------
\* Re-runs of the allocation of a cycle while employees move between pools.

\* PUT /users/<user_id>: every field of the request is copied to the employee;
\* the engine reads is_active
UpdateUser(user_id, is_active) ==
    /\ users' = [users EXCEPT ![user_id].is_active = is_active]
    /\ last' = [op |-> "update_user", user_id |-> user_id, is_active |-> is_active]
    /\ UNCHANGED <<vacancies, salary, recs, log, today, sessions>>

\* the stored recommendations of a grade and cycle, ordered by rank_in_grade
get_rrr_rankings_for_grade(rs, grade, promotion_cycle) ==
    LET OfGrade(rec) == /\ rec.conraiss_grade = grade
                        /\ rec.promotion_cycle = promotion_cycle
        ByRank(a, b) == a.rank_in_grade < b.rank_in_grade
    IN SortSeq(SelectSeq(rs, OfGrade), ByRank)

InitRerun ==
    /\ \E f \in [1 .. NumStaff -> DOMAIN StaffProfiles] :
          /\ \A i, j \in 1 .. NumStaff : i < j => f[i] <= f[j]
          /\ users = [i \in 1 .. NumStaff |-> StaffProfiles[f[i]]]
    /\ salary = SalaryScale
    /\ recs = <<>>
    /\ sessions = <<>>
    /\ log = <<>>
    /\ today = 0
    /\ last = NoLast
    /\ vacancies \in {table \in [LedgerGrades \X Cycles -> MaterializeRows] :
                         \A cycle \in Cycles :
                            /\ table[<<7, cycle>>] = Vacancy(1, 1, 1, TRUE)
                            /\ table[<<8, cycle>>] \in {NoRow, Vacancy(1, 0, 1, TRUE)}}

NextRerun ==
    \/ \E cycle \in Cycles, ord \in Perms(DOMAIN users), admin \in Admins :
          AllocateRRR(cycle, ord, admin)
    \/ \E uid \in DOMAIN users, new_grade \in LedgerGrades, admin \in Admins :
          ApplyUserPromotion(uid, new_grade, 1, admin, "none")
    \/ \E user_id \in DOMAIN users, is_active \in BOOLEAN :
          UpdateUser(user_id, is_active)

SpecRerun == InitRerun /\ [][NextRerun]_vars

\* C30: after every step, the rows get_rrr_rankings_for_grade returns for a
\* grade and cycle have pairwise distinct rank_in_grade values, and every row
\* an allocation run has just computed carries the grade of the pool it was
\* ranked in.
StoredRankingsStayWellFormed ==
    [][/\ \A cycle \in Cycles :
          \A grade \in {recs'[i].conraiss_grade : i \in DOMAIN recs'} :
             LET rankings == get_rrr_rankings_for_grade(recs', grade, cycle)
             IN \A i, j \in DOMAIN rankings :
                   i # j => rankings[i].rank_in_grade # rankings[j].rank_in_grade
       /\ (last'.op = "allocate_rrr" /\ last'.err = "none")
             => \A cycle \in Cycles :
                \A g \in ActiveVacancyGrades(cycle) :
                \A u \in GradePool(g) :
                \A i \in RowsOf(recs', u, cycle) :
                   (i > Len(recs) \/ recs'[i] # recs[i])
                      => recs'[i].conraiss_grade = g]_vars

====
